---- MODULE Spec2Model ----
(***************************************************************************)
(* A model of pytaridx: an append-only tar archive with a B-tree index     *)
(* (.pytree, duplicated hashed blocks) and an append-only list (.pylst).   *)
(*                                                                         *)
(* Byte strings are sequences of character codes.  Member names are kept   *)
(* in the state in a compact form, [pre, pad]: the characters pre followed *)
(* by pad copies of the filler character; every operation of the program   *)
(* on a name is computed on its characters, Chars(name).                   *)
(***************************************************************************)
EXTENDS Integers, Sequences, FiniteSets, TLC

\* ------------------------------------------------------------ characters
SOH == 1
LF == 10
CR == 13
SPACE == 32
COMMA == 44
MINUS == 45
ZERO == 48
EQUALS == 61
BSLASH == 92
FILL == 97
LBRACE == 123
RBRACE == 125

\* A sequence written as a function expression, as an explicit tuple (TLC
\* otherwise keeps the expression and evaluates it again at every use).
AsSeq(f) == f \o <<>>

\* F applied to v: a value that is computed once and used several times.
With(v, F(_)) == F(v)

Min2(a, b) == IF a < b THEN a ELSE b
Max2(a, b) == IF a > b THEN a ELSE b

SetMin(S) == CHOOSE x \in S : \A y \in S : x <= y
SetMax(S) == CHOOSE x \in S : \A y \in S : y <= x

\* The elements of a finite set of integers in ascending order.
SortedSeq(S) ==
  AsSeq([k \in 1..Cardinality(S) |-> CHOOSE x \in S : Cardinality({y \in S : y < x}) = k - 1])

Rep(c, n) == AsSeq([i \in 1..n |-> c])

RECURSIVE Flatten(_)
Flatten(ss) == IF ss = <<>> THEN <<>> ELSE Head(ss) \o Flatten(Tail(ss))

RECURSIVE JoinWith(_, _)
\* sep.join(ss)
JoinWith(sep, ss) ==
  IF ss = <<>> THEN <<>>
  ELSE IF Len(ss) = 1 THEN ss[1]
  ELSE ss[1] \o sep \o JoinWith(sep, Tail(ss))

\* ----------------------------------------------------------------- names
Chars(nm) == nm.pre \o Rep(FILL, nm.pad)

NameLen(nm) == Len(nm.pre) + nm.pad

\* The compact form of a string: its trailing run of filler characters counted.
Compact(s) ==
  LET nf == {i \in 1..Len(s) : s[i] # FILL}
      k  == IF nf = {} THEN 0 ELSE SetMax(nf)
  IN  [pre |-> SubSeq(s, 1, k), pad |-> Len(s) - k]

\* Python's s < t on strings: lexicographic by character code.
StrLess(s, t) ==
  LET n == Min2(Len(s), Len(t))
      d == {i \in 1..n : s[i] # t[i]}
  IN  IF d = {} THEN Len(s) < Len(t)
      ELSE LET i == SetMin(d) IN s[i] < t[i]

\* key < other on names.  Two names with different first non-filler parts are
\* told apart on those parts; the general case compares the characters.
KeyLess(a, b) ==
  IF a = b THEN FALSE
  ELSE IF a.pre = b.pre THEN a.pad < b.pad
  ELSE StrLess(Chars(a), Chars(b))

\* ------------------------------------------------------- decimal numbers
RECURSIVE DecDigits(_)
DecDigits(n) == IF n < 10 THEN <<ZERO + n>> ELSE DecDigits(n \div 10) \o <<ZERO + (n % 10)>>

\* "%d" % n and str(n)
Dec(n) == IF n < 0 THEN <<MINUS>> \o DecDigits(0 - n) ELSE DecDigits(n)

IsDigit(c) == c >= ZERO /\ c <= ZERO + 9

RECURSIVE DigitsValue(_, _)
DigitsValue(s, acc) ==
  IF s = <<>> THEN acc ELSE DigitsValue(Tail(s), 10 * acc + (s[1] - ZERO))

\* int(s): [ok, v]; ok is FALSE where int() raises ValueError.
ParseInt(s) ==
  LET neg  == s # <<>> /\ s[1] = MINUS
      body == IF neg THEN Tail(s) ELSE s
  IN  IF body = <<>> \/ \E i \in 1..Len(body) : ~IsDigit(body[i])
      THEN [ok |-> FALSE, v |-> 0]
      ELSE [ok |-> TRUE, v |-> IF neg THEN 0 - DigitsValue(body, 0) ELSE DigitsValue(body, 0)]

\* ---------------------------------------------------- escaping and rows
IsSpecial(c) == c = COMMA \/ c = BSLASH

RECURSIVE EscapeRange(_, _, _)
\* The characters a..b of s with a backslash before each comma and backslash;
\* the range is halved so that a long run of them is no deep recursion.
EscapeRange(s, a, b) ==
  IF \A p \in a..b : ~IsSpecial(s[p]) THEN SubSeq(s, a, b)
  ELSE IF a = b THEN <<BSLASH, s[a]>>
  ELSE LET m == (a + b) \div 2
       IN  EscapeRange(s, a, m) \o EscapeRange(s, m + 1, b)

\* rec.sub(r'\\\1', s) with rec = "(,|\\)": a backslash before each comma and backslash.
Escape(s) == EscapeRange(s, 1, Len(s))

\* The last position of a..m that holds no backslash, a - 1 if there is none.
LastNot(s, a, m) ==
  LET d == {m - p : p \in {q \in a..m : s[q] # BSLASH}}
  IN  IF d = {} THEN a - 1 ELSE m - SetMin(d)

\* In a scan from a that takes a backslash together with the character after
\* it, unless that is the newline, position m is a backslash that takes the
\* next character: the run of backslashes that ends at m has odd length.
PairStart(s, a, m) ==
  /\ s[m] = BSLASH
  /\ m < Len(s)
  /\ s[m + 1] # LF
  /\ (m - LastNot(s, a, m)) % 2 = 1

\* str(col) of one column of a row: the first column is the name, the others integers.
ColText(row, j) == IF j = 1 THEN Chars(row[1]) ELSE Dec(row[j])

\* ",".join([rec.sub(r'\\\1', str(col)) for col in row])
RowText(row) == JoinWith(<<COMMA>>, AsSeq([j \in 1..Len(row) |-> Escape(ColText(row, j))]))

\* One match of the pattern (\\.|[^,])*(,|\n) starting at i in a text that ends
\* with LF: the position of its terminator.  A backslash takes the next
\* character with it unless that character is the newline.
FieldEnd(t, i) ==
  SetMin({p \in i..Len(t) :
            /\ t[p] = COMMA \/ t[p] = LF
            /\ ~(p > i /\ PairStart(t, i, p - 1))})

RECURSIVE UnescapeRange(_, _, _)
\* The characters a..b of s with each backslash and the character it takes
\* replaced by SOH; the scan is at a, and no pair goes beyond b.  The range is
\* halved where no pair is cut.
UnescapeRange(s, a, b) ==
  IF a > b THEN <<>>
  ELSE IF \A p \in a..b : s[p] # BSLASH THEN SubSeq(s, a, b)
  ELSE IF a = b THEN <<s[a]>>
  ELSE IF b = a + 1 THEN (IF PairStart(s, a, a) THEN <<SOH>> ELSE SubSeq(s, a, b))
  ELSE LET m == (a + b) \div 2
       IN  IF PairStart(s, a, m)
           THEN UnescapeRange(s, a, m - 1) \o UnescapeRange(s, m, b)
           ELSE UnescapeRange(s, a, m) \o UnescapeRange(s, m + 1, b)

\* spatc.sub(b'\1', s) with spatc = \\(.): the replacement b'\1' is the byte
\* 0x01, so each backslash pair becomes SOH.
Unescape(s) == UnescapeRange(s, 1, Len(s))

RECURSIVE FieldsFrom(_, _)
FieldsFrom(t, i) ==
  IF i > Len(t) THEN <<>>
  ELSE LET e == FieldEnd(t, i)
       IN  <<Unescape(SubSeq(t, i, e - 1))>> \o FieldsFrom(t, e + 1)

\* [spatc.sub(b'\1', x.group()[:-1]) for x in patc.finditer(line + b"\n")]
Fields(line) == FieldsFrom(line \o <<LF>>, 1)

\* The tuple a row parses to: [ok, row]; ok is FALSE where int() raises.
ParseRow(line) ==
  With(Fields(line), LAMBDA el :
    With(AsSeq([j \in 1..(Len(el) - 1) |-> ParseInt(el[j + 1])]), LAMBDA ints :
      IF \E j \in 1..Len(ints) : ~ints[j].ok
      THEN [ok |-> FALSE, row |-> <<>>]
      ELSE [ok |-> TRUE,
            row |-> AsSeq([j \in 1..Len(el) |->
                             IF j = 1 THEN Compact(el[1]) ELSE ints[j - 1].v])]))

\* bytes.splitlines(): the lines of a text, broken at LF, CR and CR LF.
SplitLines(s) ==
  With(SortedSeq({i \in 1..Len(s) :
                    s[i] = LF \/ (s[i] = CR /\ ~(i < Len(s) /\ s[i + 1] = LF))}),
       LAMBDA es :
    LET n        == Len(s)
        start(k) == IF k = 1 THEN 1 ELSE es[k - 1] + 1
        stop(k)  == IF s[es[k]] = LF /\ es[k] > 1 /\ s[es[k] - 1] = CR /\ es[k] - 1 >= start(k)
                    THEN es[k] - 2 ELSE es[k] - 1
        rest     == IF es = <<>> THEN 1 ELSE es[Len(es)] + 1
    IN  AsSeq([k \in 1..Len(es) |-> SubSeq(s, start(k), stop(k))])
        \o (IF rest <= n THEN <<SubSeq(s, rest, n)>> ELSE <<>>))

\* ------------------------------------------------- blocks (block.py)
\* master block parameters, BlockFile.writemasterblock
blocksize == 1024
maxitems == 100
maxnamelen == 160
maxreclen == maxnamelen + 2 * 15 + 3

\* 2 * sha256().digest_size
hashsize == 64

K_hash == <<104, 97, 115, 104>>
K_end == <<101, 110, 100>>
K_leaf == <<108, 101, 97, 102>>
K_blockno == <<98, 108, 111, 99, 107, 110, 111>>
K_items == <<105, 116, 101, 109, 115>>
K_seqno == <<115, 101, 113, 110, 111>>
T_assign == <<SPACE, EQUALS, SPACE>>

\* Block.header = "hash = " + " " * hashsize + "\n", with the digest filled in.
HeaderText == K_hash \o T_assign \o Rep(ZERO, hashsize) \o <<LF>>

\* Block.dataoffset
dataoffset == Len(HeaderText)

\* A dict is a sequence of entries [key, list, val] in insertion order.
IntEntry(k, v) == [key |-> k, list |-> FALSE, val |-> v]
ListEntry(k, rows) == [key |-> k, list |-> TRUE, val |-> rows]

HasKey(d, k) == \E i \in 1..Len(d) : d[i].key = k
Get(d, k) == d[CHOOSE i \in 1..Len(d) : d[i].key = k].val

\* d[k] = e.val
Put(d, e) ==
  IF HasKey(d, e.key)
  THEN AsSeq([i \in 1..Len(d) |-> IF d[i].key = e.key THEN e ELSE d[i]])
  ELSE Append(d, e)

\* serialize(rhs) of Block.assignstring_
Serialize(e) ==
  IF e.list
  THEN IF Len(e.val) > 0
       THEN <<LBRACE, LF>> \o JoinWith(<<LF>>, AsSeq([i \in 1..Len(e.val) |-> RowText(e.val[i])]))
            \o <<LF, RBRACE>>
       ELSE <<LBRACE, LF, RBRACE>>
  ELSE Dec(e.val)

\* Block.assignstring_(items)
AssignString(d) ==
  JoinWith(<<LF>>, AsSeq([i \in 1..Len(d) |-> d[i].key \o T_assign \o Serialize(d[i])]))
  \o <<LF>> \o K_end \o <<LF>>

\* Block.assign: FALSE (and no hash made) when the text does not fit the block.
AssignFits(d, bsize) == dataoffset + Len(AssignString(d)) <= bsize

\* line.split(b' = ', 1)
SplitAssign(line) ==
  LET at == {i \in 1..(Len(line) - 2) : SubSeq(line, i, i + 2) = T_assign}
  IN  IF at = {} THEN <<line>>
      ELSE LET i == SetMin(at) IN <<SubSeq(line, 1, i - 1), SubSeq(line, i + 3, Len(line))>>

RECURSIVE ParseLines(_, _, _, _, _, _)
\* Block.parse, from line i on: [ok, d]; ok is FALSE where parse raises.
ParseLines(lines, i, listmode, curname, curlist, d) ==
  IF i > Len(lines) THEN [ok |-> TRUE, d |-> d]
  ELSE LET line == lines[i] IN
    IF listmode
    THEN IF line = <<RBRACE>>
         THEN ParseLines(lines, i + 1, FALSE, curname, <<>>, Put(d, ListEntry(curname, curlist)))
         ELSE With(ParseRow(line), LAMBDA r :
                IF r.ok
                THEN ParseLines(lines, i + 1, TRUE, curname, Append(curlist, r.row), d)
                ELSE [ok |-> FALSE, d |-> d])
    ELSE With(SplitAssign(line), LAMBDA tt :
         IF tt[1] = K_end THEN [ok |-> TRUE, d |-> d]
         ELSE IF Len(tt) < 2 THEN [ok |-> FALSE, d |-> d]
         ELSE IF tt[2] = <<LBRACE>> THEN ParseLines(lines, i + 1, TRUE, tt[1], <<>>, d)
         ELSE IF tt[1] = K_hash THEN ParseLines(lines, i + 1, FALSE, tt[1], <<>>, d)
         ELSE With(ParseInt(tt[2]), LAMBDA v :
                IF v.ok
                THEN ParseLines(lines, i + 1, FALSE, tt[1], <<>>, Put(d, IntEntry(tt[1], v.v)))
                ELSE [ok |-> FALSE, d |-> d]))

\* Block.parse of a block whose payload is text
ParseText(text) == ParseLines(SplitLines(HeaderText \o text), 1, FALSE, <<>>, <<>>, <<>>)

\* ---------------------------------------- the tree file (blocktree.py)
\* The file is the master block followed by physical blocks 1, 2, ...; a
\* physical block (slot) is [ok, leaf, blockno, seqno, items]: whether its
\* hash check passes and the dict it was assigned.
NoSlot == [ok |-> FALSE, leaf |-> 0, blockno |-> 0, seqno |-> 0, items |-> <<>>]

\* Node.blockitems
BlockItems(n) ==
  <<IntEntry(K_leaf, IF n.leaf THEN 1 ELSE 0), IntEntry(K_blockno, n.blockno),
    ListEntry(K_items, n.items)>>

\* c = dict(items); c["seqno"] = s
WithSeqno(d, s) == Put(d, IntEntry(K_seqno, s))

\* Block(c, blocksize, blockno).data as a slot: without a valid hash when assign fails.
MakeSlot(d) ==
  IF AssignFits(d, blocksize)
  THEN [ok |-> TRUE, leaf |-> Get(d, K_leaf), blockno |-> Get(d, K_blockno),
        seqno |-> Get(d, K_seqno), items |-> Get(d, K_items)]
  ELSE NoSlot

\* The dict a slot was assigned.
SlotDict(sl) ==
  <<IntEntry(K_leaf, sl.leaf), IntEntry(K_blockno, sl.blockno),
    ListEntry(K_items, sl.items), IntEntry(K_seqno, sl.seqno)>>

\* Block(filehandle, blocksize, p): the slot at physical block p; reading past
\* the end of the file gives a block whose hash check fails.
SlotAt(dsk, p) == IF p >= 1 /\ p <= Len(dsk) THEN dsk[p] ELSE NoSlot

\* Block.parse of a valid slot
SlotParse(sl) == ParseText(AssignString(SlotDict(sl)))

\* One half of getbothblocks_: [err, s, i] for the slot read as sl.
SlotInfo(sl, blockno) ==
  IF ~sl.ok THEN [err |-> FALSE, s |-> -1, i |-> <<>>]
  ELSE With(SlotParse(sl), LAMBDA r :
       IF ~r.ok \/ ~HasKey(r.d, K_seqno) \/ ~HasKey(r.d, K_blockno)
       THEN [err |-> TRUE, s |-> -1, i |-> <<>>]
       ELSE IF Get(r.d, K_blockno) # blockno \/ Get(r.d, K_seqno) <= 0
       THEN [err |-> TRUE, s |-> -1, i |-> <<>>]
       ELSE [err |-> FALSE, s |-> Get(r.d, K_seqno), i |-> r.d])

\* BlockFile.getbothblocks_ on slots read as b1 and b2
BothInfo(b1, b2, blockno) ==
  With(SlotInfo(b1, blockno), LAMBDA x1 :
    With(SlotInfo(b2, blockno), LAMBDA x2 :
      [err |-> x1.err \/ x2.err, i1 |-> x1.i, i2 |-> x2.i, s1 |-> x1.s, s2 |-> x2.s]))

getbothblocks_(dsk, blockno) ==
  BothInfo(SlotAt(dsk, 2 * blockno - 1), SlotAt(dsk, 2 * blockno), blockno)

\* A choice that is wrong: the first slot whenever it is valid.
WinnerValid(s1, s2) == IF s1 > 0 THEN 1 ELSE IF s2 > 0 THEN 2 ELSE 0

\* The choice readblock and writeblock make between the two slots:
\* 1 or 2 for the slot taken as current, 0 when neither is valid.
Winner(s1, s2) == IF s1 > s2 THEN 1 ELSE IF s2 > 0 THEN 2 ELSE 0

\* BlockFile.readblock from what getbothblocks_ returned: [err, d]
ReadChoice(b) ==
  IF b.err THEN [err |-> TRUE, d |-> <<>>]
  ELSE IF Winner(b.s1, b.s2) = 1 THEN [err |-> FALSE, d |-> b.i1]
  ELSE IF Winner(b.s1, b.s2) = 2 THEN [err |-> FALSE, d |-> b.i2]
  ELSE [err |-> TRUE, d |-> <<>>]

readblock(dsk, blockno) == ReadChoice(getbothblocks_(dsk, blockno))

\* A choice of the physical block that is wrong: always the first slot.
WriteSlotFirst(b, blockno) == 2 * blockno - 1

\* The physical block writeblock writes for an existing block, from what
\* getbothblocks_ returned: the slot that is not the current one.
WriteSlotOf(b, blockno) ==
  IF Winner(b.s1, b.s2) = 1 THEN 2 * blockno ELSE 2 * blockno - 1

\* A file with physical block p set to sl (the file grows to hold it).
PutSlot(dsk, p, sl) ==
  AsSeq([q \in 1..Max2(Len(dsk), p) |-> IF q = p THEN sl ELSE SlotAt(dsk, q)])

\* BlockFile.writeblock: [err, disk, lastblock]
writeblock(dsk, lb, blockno, d) ==
  IF blockno <= lb
  THEN With(getbothblocks_(dsk, blockno), LAMBDA b :
       IF b.err \/ Winner(b.s1, b.s2) = 0
       THEN [err |-> TRUE, disk |-> dsk, lastblock |-> lb]
       ELSE [err |-> FALSE,
             disk |-> PutSlot(dsk, WriteSlotOf(b, blockno),
                              MakeSlot(WithSeqno(d, (IF Winner(b.s1, b.s2) = 1 THEN b.s1 ELSE b.s2) + 1))),
             lastblock |-> lb])
  ELSE IF blockno > lb + 1
  THEN [err |-> TRUE, disk |-> dsk, lastblock |-> lb]
  ELSE With(MakeSlot(WithSeqno(d, 1)), LAMBDA sl :
       [err |-> FALSE,
        disk |-> PutSlot(PutSlot(dsk, 2 * blockno - 1, sl), 2 * blockno, sl),
        lastblock |-> blockno])

\* ------------------------------------------------------ BlockTree.Node
\* A node in memory is [blockno, leaf, items, nodeptrs, parent]; nodes are
\* named by their position in the handle's node table, 0 is None.  The item
\* at Python index i of a list is element i + 1 of the sequence.
NewNode == [blockno |-> -1, leaf |-> TRUE, items |-> <<>>, nodeptrs |-> <<>>, parent |-> 0]

\* Node(backing, items) for a parsed block: [err, n]
NodeFromDict(d) ==
  IF ~HasKey(d, K_blockno) \/ ~HasKey(d, K_leaf) \/ ~HasKey(d, K_items)
  THEN [err |-> TRUE, n |-> NewNode]
  ELSE [err |-> FALSE,
        n |-> [blockno |-> Get(d, K_blockno), leaf |-> Get(d, K_leaf) > 0,
               items |-> Get(d, K_items),
               nodeptrs |-> IF Get(d, K_leaf) > 0 THEN <<>>
                            ELSE AsSeq([i \in 1..Len(Get(d, K_items)) |-> 0]),
               parent |-> 0]]

\* Node.storesize
storesize(n) == dataoffset + Len(AssignString(BlockItems(n)))

\* the linear scan of Node.find
FindLinear(items, key) ==
  LET n    == Len(items)
      hits == {i \in 0..(n - 1) : KeyLess(key, items[i + 1][1])}
  IN  IF hits = {} THEN n ELSE SetMin(hits)

\* A search that is wrong: it stops at once.
FindBinaryStops(items, key, a, b) == b

RECURSIVE FindBinary(_, _, _, _)
\* the binary search of Node.find, from a and b
FindBinary(items, key, a, b) ==
  IF b - a > 1
  THEN LET k == (a + b) \div 2
       IN  IF KeyLess(key, items[k + 1][1])
           THEN FindBinary(items, key, a, k)
           ELSE FindBinary(items, key, k, b)
  ELSE b

\* Node.find
find(items, key) ==
  IF Len(items) < 8 THEN FindLinear(items, key) ELSE FindBinary(items, key, -1, Len(items))

\* An insert that is wrong: the element is put at the end of the list.
ListInsertLast(l, i, x) == Append(l, x)

\* list.insert(i, x) for 0 <= i <= len
ListInsert(l, i, x) == SubSeq(l, 1, i) \o <<x>> \o SubSeq(l, i + 1, Len(l))

\* l[i] = x, where a negative i counts from the end
ListSet(l, i, x) ==
  LET j == IF i < 0 THEN Len(l) + i + 1 ELSE i + 1
  IN  AsSeq([q \in 1..Len(l) |-> IF q = j THEN x ELSE l[q]])

\* l[i], where a negative i counts from the end
ListGet(l, i) == l[IF i < 0 THEN Len(l) + i + 1 ELSE i + 1]

RECURSIVE findroot(_, _)
\* Node.findroot
findroot(nodes, id) == IF nodes[id].parent = 0 THEN id ELSE findroot(nodes, nodes[id].parent)

\* Node(backing, backing.readblock(blockno)): [err, n]
ReadNode(dsk, blockno) ==
  With(readblock(dsk, blockno), LAMBDA b :
    IF b.err THEN [err |-> TRUE, n |-> NewNode] ELSE NodeFromDict(b.d))

\* The child at Python index i of node id, read from the file and linked:
\* [err, nodes, child]
LoadChild(nodes, dsk, id, i) ==
  IF nodes[id].nodeptrs[i + 1] # 0
  THEN [err |-> FALSE, nodes |-> nodes, child |-> nodes[id].nodeptrs[i + 1]]
  ELSE IF Len(nodes[id].items[i + 1]) < 2
  THEN [err |-> TRUE, nodes |-> nodes, child |-> 0]
  ELSE With(ReadNode(dsk, nodes[id].items[i + 1][2]), LAMBDA r :
         IF r.err THEN [err |-> TRUE, nodes |-> nodes, child |-> 0]
         ELSE [err |-> FALSE,
               nodes |-> Append([nodes EXCEPT ![id].nodeptrs[i + 1] = Len(nodes) + 1],
                                [r.n EXCEPT !.parent = id]),
               child |-> Len(nodes) + 1])

RECURSIVE Descend(_, _, _, _)
\* The descent of Node.insert from node id to the leaf for key:
\* [err, nodes, path], path from id down to the leaf.
Descend(nodes, dsk, id, key) ==
  IF nodes[id].leaf THEN [err |-> FALSE, nodes |-> nodes, path |-> <<id>>]
  ELSE IF Len(nodes[id].items) = 0 THEN [err |-> TRUE, nodes |-> nodes, path |-> <<id>>]
  ELSE With(LoadChild(nodes, dsk, id, Max2(find(nodes[id].items, key), 1) - 1), LAMBDA c :
         IF c.err THEN [err |-> TRUE, nodes |-> nodes, path |-> <<id>>]
         ELSE With(Descend(c.nodes, dsk, c.child, key), LAMBDA r :
                [err |-> r.err, nodes |-> r.nodes, path |-> <<id>> \o r.path]))

\* A walk that is wrong: it stops at the parent of the leaf.
WalkUpOnce(nodes, p, oldkey, key, dirty) ==
  IF p = 0 THEN [err |-> FALSE, nodes |-> nodes, dirty |-> dirty]
  ELSE IF Len(nodes[p].items) = 0 THEN [err |-> TRUE, nodes |-> nodes, dirty |-> dirty]
  ELSE With(find(nodes[p].items, oldkey), LAMBDA idx2 :
         [err |-> FALSE,
          nodes |-> [nodes EXCEPT ![p].items =
                       ListSet(@, idx2 - 1, <<key, ListGet(@, idx2 - 1)[2]>>)],
          dirty |-> Append(dirty, p)])

RECURSIVE WalkUp(_, _, _, _, _)
\* The loop of Node.insert that replaces the separator of this subtree in the
\* ancestors when key becomes the first key of the leaf: [err, nodes, dirty];
\* err is the IndexError of an ancestor without items.
WalkUp(nodes, p, oldkey, key, dirty) ==
  IF p = 0 THEN [err |-> FALSE, nodes |-> nodes, dirty |-> dirty]
  ELSE IF Len(nodes[p].items) = 0 THEN [err |-> TRUE, nodes |-> nodes, dirty |-> dirty]
  ELSE With(find(nodes[p].items, oldkey), LAMBDA idx2 :
         With([nodes EXCEPT ![p].items =
                 ListSet(@, idx2 - 1, <<key, ListGet(@, idx2 - 1)[2]>>)], LAMBDA upd :
           IF idx2 = 1 THEN WalkUp(upd, nodes[p].parent, oldkey, key, Append(dirty, p))
           ELSE [err |-> FALSE, nodes |-> upd, dirty |-> Append(dirty, p)]))

\* The leaf branch of Node.insert up to the setdirty calls:
\* [err, nodes, dirty]; err is the duplicate-key exception.
LeafInsert(nodes, id, key, value, overwriteflag) ==
  With(find(nodes[id].items, key), LAMBDA idx :
    LET items == nodes[id].items
        owrt  == idx > 0 /\ items[idx][1] = key
        info  == <<key>> \o value
    IN  IF owrt /\ ~overwriteflag THEN [err |-> TRUE, nodes |-> nodes, dirty |-> <<>>]
        ELSE IF idx = 0 /\ nodes[id].parent # 0 /\ Len(items) = 0
        THEN [err |-> TRUE, nodes |-> nodes, dirty |-> <<>>]
        ELSE With(IF idx > 0 \/ nodes[id].parent = 0
                  THEN [err |-> FALSE, nodes |-> nodes, dirty |-> <<id>>]
                  ELSE WalkUp(nodes, nodes[id].parent, items[1][1], key, <<id>>), LAMBDA w :
               [err |-> w.err,
                nodes |-> [w.nodes EXCEPT ![id].items =
                             IF owrt THEN ListSet(items, idx - 1, info)
                             ELSE ListInsert(items, idx, info)],
                dirty |-> w.dirty]))

\* the condition of Node.adjust
NeedsSplit(n) ==
  Len(n.items) >= maxitems \/ blocksize - storesize(n) < maxreclen

\* An allocation that is wrong: block 1 is handed out again.
AllocateFirst(free) == 1

\* BlockFile.allocateblock when freeblock is free: the block number it returns
\* (freeblock is then free + 1).
allocateblock(free) == free

\* Node.split of node id: [err, nodes, freeblock, wq]; wq lists the nodes
\* passed to setdirty, in order.  err is the exception of a root whose block
\* number is not 1 (raised after the node was cut and renumbered).
split(nodes, id, free) ==
  LET n      == nodes[id]
      cnt    == Len(n.items)
      p      == cnt \div 2
      rid    == Len(nodes) + 1
      rootid == Len(nodes) + 2
      rptrs  == IF n.leaf THEN <<>> ELSE SubSeq(n.nodeptrs, p + 1, cnt)
      moved  == {rptrs[i] : i \in 1..Len(rptrs)} \ {0}
      right  == [blockno |-> allocateblock(free + 1), leaf |-> n.leaf,
                 items |-> SubSeq(n.items, p + 1, cnt),
                 nodeptrs |-> rptrs, parent |-> n.parent]
      left   == [n EXCEPT !.blockno = allocateblock(free), !.items = SubSeq(n.items, 1, p),
                          !.nodeptrs = IF n.leaf THEN <<>> ELSE SubSeq(n.nodeptrs, 1, p)]
      rkey   == right.items[1][1]
      \* the node table after the cut, with lp the parent of the left half
      cut(lp) == AsSeq([i \in 1..Len(nodes) |->
                   IF i = id THEN [left EXCEPT !.parent = lp]
                   ELSE IF i \in moved THEN [nodes[i] EXCEPT !.parent = rid]
                   ELSE nodes[i]])
  IN  IF n.parent = 0
      THEN IF p = 0 \/ n.blockno # 1
           THEN [err |-> TRUE, nodes |-> Append(cut(0), right),
                 freeblock |-> free + 2, wq |-> <<>>]
           ELSE LET newroot == [blockno |-> 1, leaf |-> FALSE,
                                items |-> <<<<left.items[1][1], left.blockno>>,
                                            <<rkey, right.blockno>>>>,
                                nodeptrs |-> <<id, rid>>, parent |-> 0]
                IN  [err |-> FALSE,
                     nodes |-> Append(Append(cut(rootid), [right EXCEPT !.parent = rootid]),
                                      newroot),
                     freeblock |-> free + 2, wq |-> <<id, rid, rootid>>]
      ELSE LET par  == n.parent
               idx  == find(nodes[par].items, rkey)
               pnew == [nodes[par] EXCEPT
                          !.items = ListInsert(@, idx, <<rkey, right.blockno>>),
                          !.nodeptrs = ListInsert(@, idx, rid)]
           IN  [err |-> FALSE,
                nodes |-> Append([cut(par) EXCEPT ![par] = pnew], right),
                freeblock |-> free + 2, wq |-> <<id, rid, par>>]

\* ----------------------------------------- BlockTree.insert, step by step
\* A tree handle is [disk, nodes, root, lastblock, freeblock, wq, todo, st]:
\* the file, the node table, the BlockFile counters, the nodes still to be
\* written by the setdirty calls under way (wq), the nodes whose adjust call
\* is still to come (todo), and st: "run" inside insert, "done" after it
\* returned, "err" after it raised.
Reverse(q) == AsSeq([i \in 1..Len(q) |-> q[Len(q) + 1 - i]])

RECURSIVE Settle(_)
\* The adjust calls of Node.insert up to the next setdirty or to the return.
Settle(th) ==
  IF th.todo = <<>>
  THEN [th EXCEPT !.root = findroot(th.nodes, th.root), !.st = "done"]
  ELSE LET id == Head(th.todo) IN
       IF NeedsSplit(th.nodes[id])
       THEN With(split(th.nodes, id, th.freeblock), LAMBDA r :
            IF r.err
            THEN [th EXCEPT !.nodes = r.nodes, !.freeblock = r.freeblock, !.st = "err"]
            ELSE [th EXCEPT !.nodes = r.nodes, !.freeblock = r.freeblock, !.wq = r.wq,
                            !.todo = <<r.nodes[id].parent>> \o Tail(th.todo)])
       ELSE Settle([th EXCEPT !.todo = Tail(th.todo)])

\* A length check that is wrong: a key of maxnamelen characters is refused.
KeyTooLongFromMax(key) == NameLen(key) >= maxnamelen

\* len(key) > self.backing.maxnamelen
KeyTooLong(key) == NameLen(key) > maxnamelen

\* BlockTree.insert up to the first setdirty: the length check, the descent
\* and the change of the leaf and of the separators above it.
InsertStart(th, key, value, overwriteflag) ==
  IF KeyTooLong(key) THEN [th EXCEPT !.st = "err"]
  ELSE With(Descend(th.nodes, th.disk, th.root, key), LAMBDA d :
       IF d.err THEN [th EXCEPT !.nodes = d.nodes, !.st = "err"]
       ELSE With(LeafInsert(d.nodes, d.path[Len(d.path)], key, value, overwriteflag), LAMBDA l :
            IF l.err THEN [th EXCEPT !.nodes = d.nodes, !.st = "err"]
            ELSE [th EXCEPT !.nodes = l.nodes, !.wq = l.dirty, !.todo = Reverse(d.path),
                            !.st = "run"]))

\* One setdirty call in write-through mode: the head of wq is written; after
\* the last one the adjust calls go on.
WriteStep(th) ==
  With(writeblock(th.disk, th.lastblock, th.nodes[Head(th.wq)].blockno,
                  BlockItems(th.nodes[Head(th.wq)])), LAMBDA w :
    IF w.err THEN [th EXCEPT !.st = "err"]
    ELSE With([th EXCEPT !.disk = w.disk, !.lastblock = w.lastblock, !.wq = Tail(th.wq)],
              LAMBDA t2 : IF t2.wq = <<>> THEN Settle(t2) ELSE t2))

RECURSIVE RunInsert(_)
RunInsert(th) == IF th.st = "run" THEN RunInsert(WriteStep(th)) ELSE th

\* BlockTree.insert as a whole
TreeInsert(th, key, value, overwriteflag) == RunInsert(InsertStart(th, key, value, overwriteflag))

\* A node as Node.lookup reaches it from node n at Python index i: the node
\* linked in memory, else the block read from the file: [err, n]
ChildNode(nodes, dsk, n, i) ==
  IF n.nodeptrs[i + 1] # 0 THEN [err |-> FALSE, n |-> nodes[n.nodeptrs[i + 1]]]
  ELSE IF Len(n.items[i + 1]) < 2 THEN [err |-> TRUE, n |-> NewNode]
  ELSE ReadNode(dsk, n.items[i + 1][2])

RECURSIVE NodeLookupAnyKey(_, _, _, _)
\* A lookup that is wrong: the leaf does not compare the key it finds.
NodeLookupAnyKey(nodes, dsk, n, key) ==
  With(find(n.items, key), LAMBDA idx :
    IF idx <= 0 THEN [found |-> FALSE, err |-> FALSE, val |-> <<>>]
    ELSE IF n.leaf THEN [found |-> TRUE, err |-> FALSE, val |-> Tail(n.items[idx])]
    ELSE With(ChildNode(nodes, dsk, n, idx - 1), LAMBDA c :
           IF c.err THEN [found |-> FALSE, err |-> TRUE, val |-> <<>>]
           ELSE NodeLookupAnyKey(nodes, dsk, c.n, key)))

RECURSIVE NodeLookup(_, _, _, _)
\* Node.lookup: [found, err, val]; found with the columns after the key, err
\* for an exception other than "not found".
NodeLookup(nodes, dsk, n, key) ==
  With(find(n.items, key), LAMBDA idx :
    IF idx <= 0 THEN [found |-> FALSE, err |-> FALSE, val |-> <<>>]
    ELSE IF n.leaf
    THEN IF n.items[idx][1] = key
         THEN [found |-> TRUE, err |-> FALSE, val |-> Tail(n.items[idx])]
         ELSE [found |-> FALSE, err |-> FALSE, val |-> <<>>]
    ELSE With(ChildNode(nodes, dsk, n, idx - 1), LAMBDA c :
           IF c.err THEN [found |-> FALSE, err |-> TRUE, val |-> <<>>]
           ELSE NodeLookup(nodes, dsk, c.n, key)))

\* BlockTree.lookup on a tree handle
lookup(th, key) == NodeLookup(th.nodes, th.disk, th.nodes[th.root], key)

\* BlockTree.__init__ on the file dsk: [err, th].  The counters come from the
\* length of the file, the root from block 1.
OpenTree(dsk) ==
  With(ReadNode(dsk, 1), LAMBDA r :
    LET fb == Len(dsk) + 1
        lb == (fb - 1) \div 2
    IN  [err |-> r.err,
         th  |-> [disk |-> dsk, nodes |-> <<r.n>>, root |-> 1, lastblock |-> lb,
                  freeblock |-> lb + 1, wq |-> <<>>, todo |-> <<>>, st |-> "done"]])

\* The file BlockFile.writemasterblock creates: the master block and block 1,
\* an empty leaf, in both slots with seqno 1.
NewTreeFile ==
  With(MakeSlot(WithSeqno(BlockItems([NewNode EXCEPT !.blockno = 1]), 1)), LAMBDA sl : <<sl, sl>>)

\* BlockTree.flushtree: every node is dropped and the root read again.
flushtree(th) ==
  With(ReadNode(th.disk, 1), LAMBDA r :
    IF r.err THEN [th EXCEPT !.st = "err"]
    ELSE [th EXCEPT !.nodes = <<r.n>>, !.root = 1])

\* ------------------------------------------------ BlockTree.check
\* a < b on rows, as Python compares tuples: by the first column that differs
RowLess(a, b) ==
  LET n == Min2(Len(a), Len(b))
      d == {i \in 1..n : a[i] # b[i]}
  IN  IF d = {} THEN Len(a) < Len(b)
      ELSE IF SetMin(d) = 1 THEN KeyLess(a[1], b[1])
      ELSE a[SetMin(d)] < b[SetMin(d)]

\* Node.treecheck on node id, without the calls for its children: TRUE when
\* it raises nothing.
treecheck(nds, id) ==
  LET n == nds[id] IN
  /\ \A i \in 1..(Len(n.items) - 1) : RowLess(n.items[i], n.items[i + 1])
  /\ n.parent # 0 =>
       /\ Len(n.items) > 0 /\ Len(nds[n.parent].items) > 0
       /\ With(find(nds[n.parent].items, n.items[1][1]), LAMBDA idx :
            /\ ListGet(nds[n.parent].items, idx - 1)[1] = n.items[1][1]
            /\ idx < Len(nds[n.parent].items)
                 => KeyLess(n.items[Len(n.items)][1], nds[n.parent].items[idx + 1][1])
            /\ ListGet(nds[n.parent].nodeptrs, idx - 1) = id)

RECURSIVE MemNodes(_, _)
\* the nodes treecheck visits from node id: those linked in memory
MemNodes(nds, id) ==
  {id} \cup UNION {MemNodes(nds, nds[id].nodeptrs[i]) :
                     i \in {j \in 1..Len(nds[id].nodeptrs) : nds[id].nodeptrs[j] # 0}}

\* BlockTree.check(): TRUE when it raises nothing
check(th) == \A id \in MemNodes(th.nodes, th.root) : treecheck(th.nodes, id)

\* -------------------------------------------------- the tar file
\* The tar file is a sequence of 512-byte blocks [t, name, n, k]: a member
\* header ("hdr": the name field, n the size), an extended header ("xhdr": n
\* the length of its payload), block k of the payload of an extended header
\* ("xdata": the long name, if it carries one) or block k of the data numbered
\* n ("data").
\*
\* The headers are made by tarfile in its default format, which is GNU_FORMAT
\* up to Python 3.7 and PAX_FORMAT from Python 3.8 on.  In GNU format a member
\* has an extended header when its name is longer than the name field; in PAX
\* format also when a field does not fit the header as a number, and the
\* mtime that write sets, time.time(), is a float: every member has one.
tarblock == 512

\* tarfile.LENGTH_NAME, the length of the name field of a header
LENGTH_NAME == 100

NoName == [pre |-> <<>>, pad |-> 0]

Blocks(size) == (size + tarblock - 1) \div tarblock

\* name[:LENGTH_NAME]
NameField(nm) ==
  IF NameLen(nm) <= LENGTH_NAME THEN nm ELSE Compact(SubSeq(Chars(nm), 1, LENGTH_NAME))

Formats == {"gnu", "pax"}

LongName(nm) == NameLen(nm) > LENGTH_NAME

\* info.tobuf(format, ...): the header blocks of a member.  The payload of an
\* extended header is counted as the name and one more byte (the records of
\* a PAX header are longer, and fit one block as this does for the names of
\* the model).
HeaderBlocks(fmt, nm, size) ==
  (IF LongName(nm) \/ fmt = "pax"
   THEN <<[t |-> "xhdr", name |-> NoName, n |-> NameLen(nm) + 1, k |-> 0]>>
        \o AsSeq([i \in 1..Blocks(NameLen(nm) + 1) |->
                    [t |-> "xdata", name |-> IF LongName(nm) THEN nm ELSE NoName,
                     n |-> 0, k |-> i]])
   ELSE <<>>)
  \o <<[t |-> "hdr", name |-> NameField(nm), n |-> size, k |-> 0]>>

\* The blocks of data d = [did, size], padded to the next block.
DataBlocks(d) ==
  AsSeq([i \in 1..Blocks(d.size) |-> [t |-> "data", name |-> NoName, n |-> d.did, k |-> i]])

\* the offset IndexedTarFile.write records for a member appended to tar
WriteOffset(tar) == Len(tar) * tarblock + 512

\* the bytes IndexedTarFile.write appends
TarAppend(tar, fmt, nm, d) == tar \o HeaderBlocks(fmt, nm, d.size) \o DataBlocks(d)

\* tfr.seek(offset); tfr.read(size): the blocks read and the number of bytes
ReadBytes(tar, offset, size) ==
  LET first == offset \div tarblock
      avail == Max2(0, Min2(size, Len(tar) * tarblock - offset))
  IN  [blocks |-> AsSeq([i \in 1..Blocks(avail) |-> tar[first + i]]), size |-> avail]

\* the bytes of data d
DataBytes(d) == [blocks |-> DataBlocks(d), size |-> d.size]

RECURSIVE TarScan(_, _, _)
\* The members tarfile iterates over from block i on, as (name, offset_data,
\* size); long is the name an extended header gave for the next member.
TarScan(tar, i, long) ==
  IF i > Len(tar) THEN <<>>
  ELSE IF tar[i].t = "xhdr"
  THEN IF i + Blocks(tar[i].n) > Len(tar) THEN <<>>
       ELSE TarScan(tar, i + 1 + Blocks(tar[i].n),
                    IF tar[i + 1].name = NoName THEN <<>> ELSE <<tar[i + 1].name>>)
  ELSE IF tar[i].t = "hdr"
  THEN <<[name |-> IF long = <<>> THEN tar[i].name ELSE long[1],
          offset |-> i * tarblock, size |-> tar[i].n]>>
       \o TarScan(tar, i + 1 + Blocks(tar[i].n), <<>>)
  ELSE <<>>

TarMembers(tar) == TarScan(tar, 1, <<>>)

\* ------------------------------------------------------ the list file
\* A line of .pylst is kept as the record [name, offset, size] it was written from.
\* "%s,%d,%d\n" % (rec.sub(r'\\\1', name), offset, size)
LineText(l) ==
  Escape(Chars(l.name)) \o <<COMMA>> \o Dec(l.offset) \o <<COMMA>> \o Dec(l.size) \o <<LF>>

RECURSIVE TailText(_, _, _)
\* The last n bytes of the file (all of it when it is shorter).
TailText(lst, n, acc) ==
  IF Len(acc) >= n THEN SubSeq(acc, Len(acc) - n + 1, Len(acc))
  ELSE IF lst = <<>> THEN acc
  ELSE TailText(SubSeq(lst, 1, Len(lst) - 1), n, LineText(lst[Len(lst)]) \o acc)

\* The body of the loop of _IndexManager.last for one line: [ok, elems];
\* ok is FALSE when int() raised or the line has not three elements.
LastTry(rec) ==
  With(ParseRow(rec), LAMBDA r : [ok |-> r.ok /\ Len(r.row) = 3, elems |-> r.row])

\* _IndexManager.last from the bytes data it read at the end of the file:
\* [kind, val]; kind is "none", "ok" or "raise".
LastIn(data) ==
  With(SplitLines(data), LAMBDA lines :
    IF data = <<>> THEN [kind |-> "none", val |-> <<>>]
    ELSE IF Len(lines) < 1 THEN [kind |-> "raise", val |-> <<>>]
    ELSE With(LastTry(lines[Len(lines)]), LAMBDA r1 :
      IF r1.ok THEN [kind |-> "ok", val |-> r1.elems]
      ELSE IF Len(lines) < 2 THEN [kind |-> "raise", val |-> <<>>]
      ELSE With(LastTry(lines[Len(lines) - 1]), LAMBDA r2 :
        IF r2.ok THEN [kind |-> "ok", val |-> r2.elems]
        ELSE [kind |-> "raise", val |-> <<>>])))

\* the last n bytes of a file that holds text
TailBytes(text, n) == SubSeq(text, Max2(1, Len(text) - n + 1), Len(text))

\* _IndexManager.last on a file of complete lines
last(lst) == LastIn(TailText(lst, 2 * maxreclen + 1, <<>>))

\* ------------------------------------------------ reindex, read, exist
RECURSIVE ReindexFrom(_, _, _)
\* The loop of IndexedTarFile.reindex over the members ms from member i on:
\* each is inserted into the new tree; an exception of insert ends the loop.
ReindexFrom(th, ms, i) ==
  IF i > Len(ms) \/ th.st = "err" THEN th
  ELSE ReindexFrom(TreeInsert(th, ms[i].name, <<ms[i].offset, ms[i].size>>, TRUE), ms, i + 1)

\* An open that is wrong: the file keeps what it holds.
OpenA(old) == old

\* open(name, "w") and open(name, "wb"): the file is made, or emptied.
OpenW(old) == <<>>

\* the lines reindex writes for the members ms
MemberLines(ms) ==
  AsSeq([i \in 1..Len(ms) |->
           [name |-> ms[i].name, offset |-> ms[i].offset, size |-> ms[i].size]])

\* IndexedTarFile.reindex: [err, disk, lst], the files that replace .pytree
\* and .pylst; err when an exception left the live files as they were.  The
\* index is written to the files .pytree_ and .pylst_, found as old, which
\* are renamed at the end.
reindex(tar, old) ==
  With(TarMembers(tar), LAMBDA ms :
    With(flushtree(ReindexFrom(OpenTree(OpenW(old.disk) \o NewTreeFile).th, ms, 1)), LAMBDA f :
      [err  |-> f.st = "err",
       disk |-> f.disk,
       lst  |-> OpenW(old.lst) \o MemberLines(ms)]))

\* IndexedTarFile.read: [ok, bytes]; ok is FALSE where lookup raises.
read(th, tar, name) ==
  With(lookup(th, name), LAMBDA r :
    IF r.found THEN [ok |-> TRUE, bytes |-> ReadBytes(tar, r.val[1], r.val[2])]
    ELSE [ok |-> FALSE, bytes |-> [blocks |-> <<>>, size |-> 0]])

\* _IndexManager.exist: every exception of lookup gives False.
exist(th, name) == lookup(th, name).found

\* ------------------------------------------------------- the archive
\* One IndexedTarFile handle in mode r+ on an archive, from its creation.
VARIABLES
  tar,        \* the tar file
  lst,        \* .pylst
  disk,       \* .pytree
  isopen,     \* IndexedTarFile.isopen
  nodes,      \* the nodes of the tree in memory
  root,       \* BlockTree.root
  lastblock,  \* BlockFile.lastblock
  freeblock,  \* BlockFile.freeblock
  wq,         \* nodes whose setdirty call is under way
  todo,       \* nodes whose adjust call is still to come
  st,         \* state of BlockTree.insert: "run", "done", "err"
  pc,         \* position in write: "idle", "call", "tar", "log", "tree"
  hist,       \* history: the write calls made, with the stage each reached
              \* and whether a crash ended it
  rebuilt,    \* history: the index was rebuilt since the last write call
  fresh,      \* history: the handle is the one that created the archive
  wr,         \* a writeblock call of the block writer: the slot and what it writes
  rd,         \* a readblock call of the block reader: the slots as it read them
  vers,       \* history: the payloads the block writer wrote
  format,     \* the default format of tarfile in the Python that runs the program
  files,      \* which of the index files .pytree and .pylst exist
  mode,       \* IndexedTarFile.readonly, as the mode of the last open call
  raised,     \* the exception the last open call ended with, "none" if it returned
  tmp,        \* .pytree_ and .pylst_, the files an interrupted reindex left
  reader,     \* a second tree handle, opened for reading, and its lookup call
  call,       \* a call of one function on its own: [op, args, out]
  dirtymap,   \* BlockFile.dirtymap of a handle with cacheflag: its keys, in order
  driver      \* the reindex driver of main.py: its queue and its worker processes

fileVars == <<tar, lst, disk>>
treeVars == <<nodes, root, lastblock, freeblock, wq, todo, st>>
histVars == <<hist, rebuilt, fresh>>
\* what the operations of the archive leave alone
restVars == <<wr, rd, vers, format, reader, call, dirtymap, driver>>
\* the index files that exist and the outcome of the last open call
openVars == <<files, mode, raised, tmp>>
vars == <<tar, lst, disk, isopen, nodes, root, lastblock, freeblock, wq, todo, st, pc,
          hist, rebuilt, fresh, wr, rd, vers, format, files, mode, raised, tmp, reader,
          call, dirtymap, driver>>

\* the tree handle of the state
Handle ==
  [disk |-> disk, nodes |-> nodes, root |-> root, lastblock |-> lastblock,
   freeblock |-> freeblock, wq |-> wq, todo |-> todo, st |-> st]

SetHandle(t) ==
  /\ disk' = t.disk
  /\ nodes' = t.nodes
  /\ root' = t.root
  /\ lastblock' = t.lastblock
  /\ freeblock' = t.freeblock
  /\ wq' = t.wq
  /\ todo' = t.todo
  /\ st' = t.st

\* the memory of a handle that is not open
NoMemory ==
  /\ nodes' = <<>>
  /\ root' = 0
  /\ lastblock' = 0
  /\ freeblock' = 0
  /\ wq' = <<>>
  /\ todo' = <<>>
  /\ st' = "done"

\* ---------------------------------------------------------- bounds
\* the number of write calls of a run
MaxWrites == 2

\* the number of crashes of a run
MaxCrashes == 1

\* the lengths of the data written
SmallData == 6
LargeData == 600
DataSizes == {SmallData, LargeData}

\* an offset of ten digits
LargeOffset == 1000000000

\* The names written: "b", "a,b", and names of 100, 101, maxnamelen and
\* maxnamelen + 1 characters.
Name(pre, pad) == Compact(pre \o Rep(FILL, pad))

ShortName == Name(<<98>>, 0)
CommaName == Name(<<FILL, COMMA, 98>>, 0)

Names ==
  { ShortName, CommaName,
    Name(<<99>>, LENGTH_NAME - 1),
    Name(<<100>>, LENGTH_NAME),
    Name(<<101>>, maxnamelen - 1),
    Name(<<102>>, maxnamelen) }

\* A run of names of maxnamelen characters, in ascending order: "k1aaa...",
\* "k2aaa...", ...
RunLen == 9

RunName(i) == Name(<<107, ZERO + i>>, maxnamelen - 2)

\* the index files of an archive
AllFiles == {"pytree", "pylst"}

\* no file .pytree_ or .pylst_
NoTmp == [disk |-> <<>>, lst |-> <<>>]

\* the reader has no handle
NoReader == [pc |-> "closed", nodes |-> <<>>, cur |-> 0, key |-> 0, known |-> {}, val |-> <<>>, n |-> 0]

\* no function has been called on its own
NoCall == [op |-> "none", args |-> <<>>, out |-> <<>>, ret |-> FALSE]

\* the call of op with args that has not begun
Args(op, args) == [op |-> op, args |-> args, out |-> <<>>, ret |-> FALSE]

\* no writeblock call of the block writer yet, no readblock call under way
NoWrite == [busy |-> FALSE, slot |-> 0, sl |-> NoSlot, s1 |-> 0, s2 |-> 0, fits |-> TRUE]
NoRead == [pc |-> "idle", b1 |-> NoSlot, b2 |-> NoSlot, res |-> [err |-> FALSE, d |-> <<>>]]

\* ------------------------------------------------------------ actions
\* IndexedTarFile.open(name, "r+") on a name with no files, as far as the
\* files and the handle go: writemasterblock made the tree file.  The format
\* of tarfile is one of fmts.
\* A function called on its own is called with one of calls.
\* The driver of main.py is [pc, queue, workers, made]: its position ("init",
\* "map" inside pool.map, "finished", "raised"), the queue, the worker tasks
\* [pc, item] and the tar files that reindex was called for.  Before reindex_tarfiles is called
\* nothing is queued and there is no worker.
NoDriver == [pc |-> "init", queue |-> <<>>, workers |-> <<>>, made |-> <<>>]

InitWith(fmts, calls) ==
  /\ format \in fmts
  /\ tar = <<>>
  /\ lst = <<>>
  /\ disk = NewTreeFile
  /\ isopen = TRUE
  /\ nodes = OpenTree(disk).th.nodes
  /\ root = 1
  /\ lastblock = 1
  /\ freeblock = 2
  /\ wq = <<>>
  /\ todo = <<>>
  /\ st = "done"
  /\ pc = "idle"
  /\ hist = <<>>
  /\ rebuilt = FALSE
  /\ fresh = TRUE
  /\ wr = NoWrite
  /\ rd = NoRead
  /\ vers = <<>>
  /\ files = AllFiles
  /\ mode = "r+"
  /\ raised = "none"
  /\ tmp = NoTmp
  /\ reader = NoReader
  /\ call \in calls
  /\ dirtymap = <<>>
  /\ driver = NoDriver

InitIn(fmts) == InitWith(fmts, {NoCall})

Init == InitIn(Formats)

\* the write call under way, or the last one made
Cur == hist[Len(hist)]

SetStage(stage) == hist' = [hist EXCEPT ![Len(hist)].stage = stage]

\* IndexedTarFile.write, up to the offset taken from the end of the tar file
WriteCall(name, size) ==
  /\ isopen /\ pc = "idle" /\ mode = "r+"
  /\ Len(hist) < MaxWrites
  /\ hist' = Append(hist, [name |-> name, did |-> Len(hist) + 1, size |-> size,
                           offset |-> WriteOffset(tar), stage |-> "call", cr |-> FALSE])
  /\ pc' = "call"
  /\ rebuilt' = FALSE
  /\ UNCHANGED <<fileVars, isopen, treeVars, fresh, restVars, openVars>>

\* the header, the data and the padding are written to the tar file and flushed
WriteTar ==
  /\ isopen /\ pc = "call"
  /\ tar' = TarAppend(tar, format, Cur.name, [did |-> Cur.did, size |-> Cur.size])
  /\ pc' = "tar"
  /\ SetStage("tar")
  /\ UNCHANGED <<lst, disk, isopen, treeVars, rebuilt, fresh, restVars, openVars>>

\* _IndexManager.insert: the line is appended to the list file and flushed
WriteLog ==
  /\ isopen /\ pc = "tar"
  /\ lst' = Append(lst, [name |-> Cur.name, offset |-> Cur.offset, size |-> Cur.size])
  /\ pc' = "log"
  /\ SetStage("log")
  /\ UNCHANGED <<tar, disk, isopen, treeVars, rebuilt, fresh, restVars, openVars>>

\* the end of a step of tree.insert: it goes on, has returned or has raised
AfterTree(t) ==
  /\ SetHandle(t)
  /\ pc' = IF t.st = "run" THEN "tree" ELSE "idle"
  /\ SetStage(IF t.st = "run" THEN "tree" ELSE IF t.st = "done" THEN "done" ELSE "raised")
  /\ UNCHANGED <<tar, lst, isopen, rebuilt, fresh, restVars, openVars>>

\* tree.insert up to its first block write
TreeStart ==
  /\ isopen /\ pc = "log"
  /\ AfterTree(InsertStart(Handle, Cur.name, <<Cur.offset, Cur.size>>, TRUE))

\* one block write of tree.insert
WriteBlock ==
  /\ isopen /\ pc = "tree"
  /\ AfterTree(WriteStep(Handle))

\* The process ends inside a write call, at any point after the call was
\* made; the files stay as they are.  A run has at most MaxCrashes of them.
Crash ==
  /\ isopen /\ pc # "idle"
  /\ Cardinality({i \in 1..Len(hist) : hist[i].cr}) < MaxCrashes
  /\ isopen' = FALSE
  /\ NoMemory
  /\ pc' = "idle"
  /\ hist' = [hist EXCEPT ![Len(hist)].cr = TRUE]
  /\ fresh' = FALSE
  /\ UNCHANGED <<fileVars, rebuilt, restVars, openVars>>

\* IndexedTarFile.close
Close ==
  /\ isopen /\ pc = "idle"
  /\ isopen' = FALSE
  /\ NoMemory
  /\ pc' = "idle"
  /\ fresh' = FALSE
  /\ UNCHANGED <<fileVars, hist, rebuilt, restVars, openVars>>

\* A check of the index files that is wrong: the list file is not looked at.
IndexOpensTreeOnly(m, fs, o) == "pytree" \in fs /\ ~o.err

\* _IndexManager.__init__(name, m) returns: the tree file is there and
\* BlockTree opened it as o = [err, th]; in mode "r" the list file must be
\* there too, in mode "r+" it is opened for appending, which makes it.
IndexOpens(m, fs, o) == "pytree" \in fs /\ ~o.err /\ (m = "r" => "pylst" \in fs)

\* IndexedTarFile.open(name, "r+") on the files of the archive: when the
\* index cannot be opened it is made again from the tar file first.
Open ==
  /\ ~isopen
  /\ \E o \in {OpenTree(disk)} :
       IF IndexOpens("r+", files, o)
       THEN /\ SetHandle(o.th)
            /\ files' = files \cup {"pylst"}
            /\ UNCHANGED <<lst, rebuilt, tmp>>
       ELSE \E r \in {reindex(tar, tmp)} :
              /\ ~r.err
              /\ \E t \in {OpenTree(r.disk)} : ~t.err /\ SetHandle(t.th)
              /\ lst' = r.lst
              /\ rebuilt' = TRUE
              /\ files' = AllFiles
              /\ tmp' = NoTmp
  /\ isopen' = TRUE
  /\ mode' = "r+"
  /\ raised' = "none"
  /\ pc' = "idle"
  /\ UNCHANGED <<tar, hist, fresh, restVars>>

\* IndexedTarFile.open(name, "r"): without the index it raises
\* IndexNotFoundError.
OpenRead ==
  /\ ~isopen
  /\ mode' = "r"
  /\ \E o \in {OpenTree(disk)} :
       IF IndexOpens("r", files, o)
       THEN /\ SetHandle(o.th)
            /\ isopen' = TRUE
            /\ raised' = "none"
       ELSE /\ raised' = "IndexNotFoundError"
            /\ UNCHANGED <<disk, isopen, treeVars>>
  /\ pc' = "idle"
  /\ UNCHANGED <<tar, lst, files, tmp, hist, rebuilt, fresh, restVars>>

\* one of the index files of the closed archive is deleted
Remove(f) ==
  /\ ~isopen
  /\ f \in files
  /\ files' = files \ {f}
  /\ IF f = "pytree" THEN disk' = <<>> /\ lst' = lst ELSE lst' = <<>> /\ disk' = disk
  /\ rebuilt' = FALSE
  /\ UNCHANGED <<tar, isopen, treeVars, pc, hist, fresh, restVars, mode, raised, tmp>>

\* reindex run on the closed archive
Rebuild ==
  /\ ~isopen
  /\ \E r \in {reindex(tar, tmp)} :
       /\ ~r.err
       /\ disk' = r.disk
       /\ lst' = r.lst
  /\ rebuilt' = TRUE
  /\ files' = AllFiles
  /\ tmp' = NoTmp
  /\ UNCHANGED <<tar, isopen, treeVars, pc, hist, fresh, restVars, mode, raised>>

\* reindex run on the closed archive, and the process ends after k members
\* were read from the tar file: the tree of these members and j of their
\* lines (the lines are buffered) are left in .pytree_ and .pylst_.
RebuildCrash(k, j) ==
  /\ ~isopen
  /\ j <= k
  /\ \E ms \in {TarMembers(tar)} :
       /\ k <= Len(ms)
       /\ \E t \in {ReindexFrom(OpenTree(OpenW(tmp.disk) \o NewTreeFile).th, SubSeq(ms, 1, k), 1)} :
            /\ t.st # "err"
            /\ tmp' = [disk |-> t.disk, lst |-> OpenW(tmp.lst) \o SubSeq(MemberLines(ms), 1, j)]
  /\ UNCHANGED <<fileVars, isopen, treeVars, pc, hist, rebuilt, fresh, restVars, files, mode, raised>>

Next ==
  \/ \E name \in Names, size \in DataSizes : WriteCall(name, size)
  \/ WriteTar
  \/ WriteLog
  \/ TreeStart
  \/ WriteBlock
  \/ Crash
  \/ Close
  \/ Open
  \/ Rebuild

Spec == Init /\ [][Next]_vars

\* ------------------------------------------- many members, long names
\* The names written so far that belong to the run, by number.
RunWritten == {i \in 1..RunLen : \E j \in 1..Len(hist) : hist[j].name = RunName(i)}

\* A write call whose name extends the run of names written so far at one
\* of its ends (the first name is any name of the run).
WriteCallRun(i) ==
  /\ isopen /\ pc = "idle" /\ mode = "r+"
  /\ i \notin RunWritten
  /\ RunWritten = {} \/ i + 1 \in RunWritten \/ i - 1 \in RunWritten
  /\ hist' = Append(hist, [name |-> RunName(i), did |-> Len(hist) + 1, size |-> SmallData,
                           offset |-> WriteOffset(tar), stage |-> "call", cr |-> FALSE])
  /\ pc' = "call"
  /\ rebuilt' = FALSE
  /\ UNCHANGED <<fileVars, isopen, treeVars, fresh, restVars, openVars>>

NextDeep ==
  \/ \E i \in 1..RunLen : WriteCallRun(i)
  \/ WriteTar
  \/ WriteLog
  \/ TreeStart
  \/ WriteBlock
  \/ Close
  \/ Open

\* The names of the run are longer than the name field: their members have
\* the same blocks in both formats.
InitDeep == InitIn({"gnu"})

SpecDeep == InitDeep /\ [][NextDeep]_vars

\* --------------------------------------------- a tree of three levels
\* The number of names written, and the orders they are written in: ascending,
\* descending, and from the middle outwards.
TreeLen == 14

Orders ==
  { AsSeq([i \in 1..TreeLen |-> i]),
    AsSeq([i \in 1..TreeLen |-> TreeLen + 1 - i]),
    AsSeq([i \in 1..TreeLen |->
             IF i % 2 = 1 THEN (TreeLen \div 2) - ((i - 1) \div 2) ELSE (TreeLen \div 2) + (i \div 2)]) }

\* A write call that goes on with the names of order o.
WriteCallOrder(o) ==
  /\ isopen /\ pc = "idle" /\ mode = "r+"
  /\ Len(hist) < Len(o)
  /\ \A i \in 1..Len(hist) : hist[i].name = RunName(o[i])
  /\ hist' = Append(hist, [name |-> RunName(o[Len(hist) + 1]), did |-> Len(hist) + 1,
                           size |-> SmallData, offset |-> WriteOffset(tar),
                           stage |-> "call", cr |-> FALSE])
  /\ pc' = "call"
  /\ rebuilt' = FALSE
  /\ UNCHANGED <<fileVars, isopen, treeVars, fresh, restVars, openVars>>

NextTree ==
  \/ \E o \in Orders : WriteCallOrder(o)
  \/ WriteTar
  \/ WriteLog
  \/ TreeStart
  \/ WriteBlock

InitTree == InitIn({"gnu"})

SpecTree == InitTree /\ [][NextTree]_vars

\* ------------------------------------- a reader beside the one writer
\* The reader is a BlockTree handle of another process on the same file,
\* [pc, nodes, cur, key, known, val, n]: its position ("closed", "idle",
\* "look" inside lookup, "found", "notfound", "err"), its nodes in memory (the
\* root is node 1), the node its lookup is at, the write call whose name it
\* looks up, the write calls that had returned when it was opened, the value
\* found, and the number of lookup calls made.  Each of its readblock calls
\* is one step, taken between two block writes of the writer.
MaxLookups == 1

\* what the reader leaves alone
writerVars ==
  <<tar, lst, disk, isopen, nodes, root, lastblock, freeblock, wq, todo, st, pc,
    hist, rebuilt, fresh, wr, rd, vers, format, files, mode, raised, tmp, call,
    dirtymap, driver>>

\* BlockTree(filename, "r")
ReaderOpen ==
  /\ reader.pc = "closed"
  /\ \E o \in {OpenTree(disk)} :
       reader' = [reader EXCEPT
                    !.pc = IF o.err THEN "err" ELSE "idle",
                    !.nodes = o.th.nodes,
                    !.known = {i \in 1..Len(hist) : hist[i].stage = "done"}]
  /\ UNCHANGED writerVars

\* BlockTree.lookup(key) is called for the name of write call i
ReaderLookup(i) ==
  /\ reader.pc = "idle"
  /\ reader.n < MaxLookups
  /\ i \in reader.known
  /\ reader' = [reader EXCEPT !.pc = "look", !.cur = 1, !.key = i, !.n = @ + 1]
  /\ UNCHANGED writerVars

\* Node.lookup on the node the reader is at: the key is looked for in a
\* leaf, and under an internal node the child is read from the file, if it
\* is not in memory, and becomes the node the reader is at.
ReaderStep ==
  /\ reader.pc = "look"
  /\ \E n \in {reader.nodes[reader.cur]}, key \in {hist[reader.key].name} :
       \E idx \in {find(n.items, key)} :
         IF idx <= 0 THEN reader' = [reader EXCEPT !.pc = "notfound"]
         ELSE IF n.leaf
         THEN IF n.items[idx][1] = key
              THEN reader' = [reader EXCEPT !.pc = "found", !.val = Tail(n.items[idx])]
              ELSE reader' = [reader EXCEPT !.pc = "notfound"]
         ELSE \E c \in {LoadChild(reader.nodes, disk, reader.cur, idx - 1)} :
                IF c.err THEN reader' = [reader EXCEPT !.pc = "err"]
                ELSE reader' = [reader EXCEPT !.nodes = c.nodes, !.cur = c.child]
  /\ UNCHANGED writerVars

\* lookup has returned or raised
ReaderReturn ==
  /\ reader.pc \in {"found", "notfound", "err"}
  /\ reader' = [reader EXCEPT !.pc = "idle", !.cur = 0, !.key = 0, !.val = <<>>]
  /\ UNCHANGED writerVars

\* the first RunLen names of each order
ReaderOrders == {SubSeq(o, 1, RunLen) : o \in Orders}

NextReader ==
  \/ \E o \in ReaderOrders : WriteCallOrder(o)
  \/ WriteTar
  \/ WriteLog
  \/ TreeStart
  \/ WriteBlock
  \/ ReaderOpen
  \/ \E i \in 1..RunLen : ReaderLookup(i)
  \/ ReaderStep
  \/ ReaderReturn

InitReader == InitIn({"gnu"})

SpecReader == InitReader /\ [][NextReader]_vars

\* ------------------------------------------- rows of unequal lengths
\* The rows of a run of inserts: the names of maxnamelen characters in the
\* three orders with a small offset and size, and three names of one
\* character with a small offset and size followed by four names of
\* maxnamelen characters with an offset and a size of ten digits.
InsertRuns ==
  { AsSeq([i \in 1..TreeLen |-> [name |-> RunName(o[i]), offset |-> i * tarblock,
                                  size |-> SmallData]]) : o \in Orders }
  \cup
  { AsSeq([i \in 1..7 |->
             IF i <= 3 THEN [name |-> Name(<<32 + i>>, 0), offset |-> tarblock, size |-> SmallData]
             ELSE [name |-> RunName(i), offset |-> LargeOffset, size |-> LargeOffset]]) }

\* _IndexManager.insert(name, offset, size) with the next row of the run
\* rows, up to the call of tree.insert: the line is appended to .pylst.
IndexInsert(rows) ==
  /\ isopen /\ pc = "idle" /\ mode = "r+"
  /\ Len(hist) < Len(rows)
  /\ \A i \in 1..Len(hist) :
       <<hist[i].name, hist[i].offset, hist[i].size>> = <<rows[i].name, rows[i].offset, rows[i].size>>
  /\ \E r \in {rows[Len(hist) + 1]} :
       /\ hist' = Append(hist, [name |-> r.name, did |-> Len(hist) + 1, size |-> r.size,
                                offset |-> r.offset, stage |-> "log", cr |-> FALSE])
       /\ lst' = Append(lst, [name |-> r.name, offset |-> r.offset, size |-> r.size])
  /\ pc' = "log"
  /\ rebuilt' = FALSE
  /\ UNCHANGED <<tar, disk, isopen, treeVars, fresh, restVars, openVars>>

NextAdjust ==
  \/ \E rows \in InsertRuns : IndexInsert(rows)
  \/ TreeStart
  \/ WriteBlock

InitAdjust == InitIn({"gnu"})

SpecAdjust == InitAdjust /\ [][NextAdjust]_vars

\* ------------------------------------------- block writes that are torn
\* The names of a run of writes: the run of names of maxnamelen characters,
\* and three names of one character followed by four names of maxnamelen
\* characters that begin with CommaRun commas.
CommaRun == 62

TornRuns ==
  { AsSeq([i \in 1..RunLen |-> RunName(i)]),
    <<Name(<<33>>, 0), Name(<<35>>, 0), Name(<<36>>, 0)>> \o
      AsSeq([i \in 1..4 |-> Name(Rep(COMMA, CommaRun) \o <<119 + i>>,
                                  maxnamelen - CommaRun - 1)]) }

\* IndexedTarFile.write of the next name of the run ns
WriteCallNames(ns) ==
  /\ isopen /\ pc = "idle" /\ mode = "r+"
  /\ Len(hist) < Len(ns)
  /\ \A i \in 1..Len(hist) : hist[i].name = ns[i]
  /\ hist' = Append(hist, [name |-> ns[Len(hist) + 1], did |-> Len(hist) + 1,
                           size |-> SmallData, offset |-> WriteOffset(tar),
                           stage |-> "call", cr |-> FALSE])
  /\ pc' = "call"
  /\ rebuilt' = FALSE
  /\ UNCHANGED <<fileVars, isopen, treeVars, fresh, restVars, openVars>>

\* The process ends inside the write of writeblock to the one physical block
\* of a block that is in the file: the physical block is left with a part
\* of the new data, and its hash check fails.  The call that was torn is
\* kept: the block, what readblock returned for it before, and the number
\* of write calls made.
TornWrite ==
  /\ isopen /\ pc = "tree" /\ wq # <<>>
  /\ Cardinality({i \in 1..Len(hist) : hist[i].cr}) < MaxCrashes
  /\ \E b \in {nodes[Head(wq)].blockno} :
       /\ b <= lastblock
       /\ \E g \in {getbothblocks_(disk, b)} :
            /\ ~g.err /\ Winner(g.s1, g.s2) # 0
            /\ disk' = PutSlot(disk, WriteSlotOf(g, b), NoSlot)
       /\ call' = [op |-> "writeblock", args |-> <<b, readblock(disk, b), Len(hist)>>,
                   out |-> <<>>, ret |-> FALSE]
  /\ isopen' = FALSE
  /\ NoMemory
  /\ pc' = "idle"
  /\ hist' = [hist EXCEPT ![Len(hist)].cr = TRUE]
  /\ fresh' = FALSE
  /\ UNCHANGED <<tar, lst, rebuilt, wr, rd, vers, format, reader, dirtymap, driver, openVars>>

NextTorn ==
  \/ \E ns \in TornRuns : WriteCallNames(ns)
  \/ WriteTar
  \/ WriteLog
  \/ TreeStart
  \/ WriteBlock
  \/ TornWrite
  \/ Open

InitTorn == InitIn({"gnu"})

SpecTorn == InitTorn /\ [][NextTorn]_vars

\* ------------------------------------------- functions on their own
\* what a call of a function on its own leaves alone
callVars ==
  <<tar, lst, disk, isopen, nodes, root, lastblock, freeblock, wq, todo, st, pc,
    hist, rebuilt, fresh, wr, rd, vers, format, files, mode, raised, tmp, reader,
    dirtymap, driver>>

\* The keys of the item lists searched, "k1aaa..." to "k:aaa...", and the
\* lists: every strictly ascending list of rows over these keys, of 0 to
\* FindKeys items.
FindKeys == 10

ItemsOf(S) == AsSeq([i \in 1..Cardinality(S) |-> <<RunName(SortedSeq(S)[i]), i, SmallData>>])

\* Node.find(key) on a node with items; the two searches of find are also
\* applied on their own.
FindCall ==
  /\ call.op = "find" /\ ~call.ret
  /\ \E items \in {call.args[1]}, key \in {call.args[2]} :
       call' = [call EXCEPT !.ret = TRUE,
                            !.out = <<find(items, key), FindLinear(items, key),
                                      FindBinary(items, key, -1, Len(items))>>]
  /\ UNCHANGED callVars

NextFind == FindCall

InitFind ==
  InitWith({"gnu"}, {Args("find", <<ItemsOf(S), RunName(k)>>) :
                       S \in SUBSET (1..FindKeys), k \in 1..FindKeys})

SpecFind == InitFind /\ [][NextFind]_vars

\* The slots a block is read from: a slot whose hash check fails, and for
\* each block number of 1..ReadBlocks, each seqno of -1..MaxSeqno and each of
\* two payloads a slot whose hash check passes.
ReadBlocks == 2
MaxSeqno == 2

ReadSlots ==
  {NoSlot} \cup
  {MakeSlot(WithSeqno(BlockItems([NewNode EXCEPT !.blockno = b,
                                                  !.items = <<<<ShortName, v, SmallData>>>>]), q)) :
     b \in 1..ReadBlocks, q \in (-1)..MaxSeqno, v \in 1..2}

\* a file whose block n has the slots b1 and b2
FileOf(n, b1, b2) == PutSlot(PutSlot(<<>>, 2 * n - 1, b1), 2 * n, b2)

\* BlockFile.readblock(n)
ReadblockCall ==
  /\ call.op = "readblock" /\ ~call.ret
  /\ \E n \in {call.args[1]}, b1 \in {call.args[2]}, b2 \in {call.args[3]} :
       call' = [call EXCEPT !.ret = TRUE, !.out = readblock(FileOf(n, b1, b2), n)]
  /\ UNCHANGED callVars

NextRead == ReadblockCall

InitRead ==
  InitWith({"gnu"}, {Args("readblock", <<n, b1, b2>>) :
                       n \in 1..ReadBlocks, b1 \in ReadSlots, b2 \in ReadSlots})

SpecRead == InitRead /\ [][NextRead]_vars

\* The records whose length is measured: names of maxnamelen - 1 and
\* maxnamelen characters that begin with 0 to MaxSpecial commas or
\* backslashes, with a small and a large offset.
MaxSpecial == 40

RecNames ==
  {Name(Rep(c, k), len - k) :
     c \in {COMMA, BSLASH}, k \in 0..MaxSpecial, len \in {maxnamelen - 1, maxnamelen}}

\* _IndexManager.insert(name, offset, size), as far as the lengths of what
\* it writes go: whether BlockTree.insert takes the name, the length of the
\* row of the leaf and the length of the line of .pylst.
RecordCall ==
  /\ call.op = "record" /\ ~call.ret
  /\ \E name \in {call.args[1]}, offset \in {call.args[2]}, size \in {call.args[3]} :
       call' = [call EXCEPT
                  !.ret = TRUE,
                  !.out = [accepted |-> ~KeyTooLong(name),
                           row  |-> Len(RowText(<<name, offset, size>>)),
                           line |-> Len(LineText([name |-> name, offset |-> offset,
                                                  size |-> size]))]]
  /\ UNCHANGED callVars

NextRecord == RecordCall

InitRecord ==
  InitWith({"gnu"}, {Args("record", <<name, offset, SmallData>>) :
                       name \in RecNames, offset \in {tarblock, LargeOffset}})

SpecRecord == InitRecord /\ [][NextRecord]_vars

\* The list files last is applied to.  A file is a sequence of pieces
\* [rec, cut], the first cut bytes of the line of rec: the whole line, or
\* the part of it an append wrote that was interrupted.  The last piece is cut
\* at every length, the pieces before it are whole, cut after TornAt bytes
\* or, the second, absent.
TornAt == 3

TornName == Name(<<99>>, maxnamelen - 1)

Whole(rec) == [rec |-> rec, cut |-> Len(LineText(rec))]

RECURSIVE PiecesText(_)
PiecesText(ps) ==
  IF ps = <<>> THEN <<>>
  ELSE SubSeq(LineText(ps[1].rec), 1, ps[1].cut) \o PiecesText(Tail(ps))

ListFiles ==
  LET A == [name |-> ShortName, offset |-> tarblock, size |-> SmallData]
      B == [name |-> ShortName, offset |-> 5 * tarblock, size |-> LargeData]
      C == [name |-> TornName, offset |-> 5 * tarblock, size |-> LargeData]
  IN  {<<p1>> \o p2 \o <<[rec |-> r, cut |-> c]>> :
         p1 \in {Whole(A), [rec |-> A, cut |-> TornAt]},
         p2 \in {<<>>, <<Whole(A)>>, <<[rec |-> A, cut |-> TornAt]>>},
         r \in {B}, c \in 0..(Len(LineText(B)) - 1)}
      \cup
      {<<p1>> \o p2 \o <<[rec |-> r, cut |-> c]>> :
         p1 \in {Whole(A), [rec |-> A, cut |-> TornAt]},
         p2 \in {<<>>, <<Whole(A)>>, <<[rec |-> A, cut |-> TornAt]>>},
         r \in {C}, c \in 0..(Len(LineText(C)) - 1)}

\* _IndexManager.last() on the file of the pieces
LastOnFile ==
  /\ call.op = "last" /\ ~call.ret
  /\ \E ps \in {call.args[1]} :
       call' = [call EXCEPT !.ret = TRUE,
                            !.out = LastIn(TailBytes(PiecesText(ps), 2 * maxreclen + 1))]
  /\ UNCHANGED callVars

NextLast == LastOnFile

InitLast == InitWith({"gnu"}, {Args("last", <<ps>>) : ps \in ListFiles})

SpecLast == InitLast /\ [][NextLast]_vars

\* The tree files exist is applied to: the file that inserts of ExistKeys
\* names of maxnamelen characters leave, with each physical block of a
\* child of the root as it was written, with a block whose hash check fails
\* in its place, or with a valid block that holds another block number.
ExistKeys == 5

ExistFile ==
  ReindexFrom(OpenTree(NewTreeFile).th,
              AsSeq([i \in 1..ExistKeys |->
                       [name |-> RunName(i), offset |-> i * tarblock, size |-> SmallData]]),
              1).disk

Damaged(sl, k) ==
  IF k = 0 THEN sl ELSE IF k = 1 THEN NoSlot ELSE [sl EXCEPT !.blockno = @ + 1]

DamagedFiles ==
  {AsSeq([p \in 1..Len(ExistFile) |-> IF p <= 2 THEN ExistFile[p]
                                        ELSE Damaged(ExistFile[p], dmg[p])]) :
     dmg \in [3..Len(ExistFile) -> 0..2]}

\* BlockTree(treename, "r") on the file and _IndexManager.exist(name) on the
\* handle; the outcome of the lookup call inside exist is kept beside it.
ExistCall ==
  /\ call.op = "exist" /\ ~call.ret
  /\ \E o \in {OpenTree(call.args[1])}, name \in {call.args[2]} :
       call' = [call EXCEPT
                  !.ret = TRUE,
                  !.out = IF o.err THEN [opened |-> FALSE, exist |-> FALSE, lookup |-> "none"]
                          ELSE [opened |-> TRUE,
                                exist  |-> exist(o.th, name),
                                lookup |-> IF lookup(o.th, name).err THEN "error"
                                           ELSE IF lookup(o.th, name).found THEN "found"
                                           ELSE "not found"]]
  /\ UNCHANGED callVars

NextExist == ExistCall

InitExist ==
  InitWith({"gnu"}, {Args("exist", <<f, RunName(k)>>) :
                       f \in DamagedFiles, k \in 1..(ExistKeys + 1)})

SpecExist == InitExist /\ [][NextExist]_vars

\* ------------------------------------ index files deleted and made again
\* The names written: "b" and a name that fills the name field of a header.
PlainNames == {ShortName, Name(<<99>>, LENGTH_NAME - 1)}

NextFiles ==
  \/ \E name \in PlainNames : WriteCall(name, SmallData)
  \/ WriteTar
  \/ WriteLog
  \/ TreeStart
  \/ WriteBlock
  \/ Close
  \/ Open
  \/ OpenRead
  \/ \E f \in AllFiles : Remove(f)
  \/ Rebuild
  \/ \E k \in 0..MaxWrites, j \in 0..MaxWrites : RebuildCrash(k, j)

InitFiles == InitIn({"gnu"})

SpecFiles == InitFiles /\ [][NextFiles]_vars

\* ------------------------------ one block, a writer and a reader of it
\* The number of writeblock calls of the writer.
MaxVersions == 3

\* the number of rows of a payload that does not fit a block
BigRows == 6

\* The payload of version v: the items of a leaf holding one row, or BigRows
\* long rows, which do not fit the block.
Payload(v, big) ==
  BlockItems([NewNode EXCEPT
    !.blockno = 1,
    !.items = IF big THEN AsSeq([i \in 1..BigRows |-> <<RunName(i), v, SmallData>>])
              ELSE <<<<ShortName, v, SmallData>>>>])

\* the archive part of the state, which the block writer and reader leave alone
archVars ==
  <<tar, lst, isopen, nodes, root, freeblock, wq, todo, st, pc, hist, rebuilt, fresh, format,
    files, mode, raised, tmp, reader, call, dirtymap, driver>>

\* What a read of physical block p can return: the block as it is in the
\* file or, while the writer is writing it, also the new block or a mix of
\* the two, whose hash check fails.
Seen(p) == IF wr.busy /\ wr.slot = p THEN {SlotAt(disk, p), wr.sl, NoSlot} ELSE {SlotAt(disk, p)}

\* BlockFile.writeblock(1, payload) up to the write: both slots are read, the
\* slot and the seqno are chosen.
WriteBlockBegin(big) ==
  /\ ~wr.busy
  /\ Len(vers) < MaxVersions
  /\ \E d \in {Payload(Len(vers) + 1, big)}, b \in {getbothblocks_(disk, 1)} :
       \E w \in {writeblock(disk, lastblock, 1, d)} :
         /\ ~w.err
         /\ wr' = [busy |-> TRUE, slot |-> WriteSlotOf(b, 1),
                   sl |-> w.disk[WriteSlotOf(b, 1)], s1 |-> b.s1, s2 |-> b.s2,
                   fits |-> AssignFits(WithSeqno(d, 1), blocksize)]
         /\ vers' = Append(vers, d)
  /\ UNCHANGED <<disk, lastblock, rd, archVars>>

\* the write and the flush of writeblock
WriteBlockEnd ==
  /\ wr.busy
  /\ disk' = PutSlot(disk, wr.slot, wr.sl)
  /\ wr' = [wr EXCEPT !.busy = FALSE]
  /\ UNCHANGED <<lastblock, rd, vers, archVars>>

\* getbothblocks_(1) of the reader: the read of the first slot
ReadFirst ==
  /\ rd.pc = "idle"
  /\ \E sl \in Seen(1) : rd' = [rd EXCEPT !.pc = "one", !.b1 = sl]
  /\ UNCHANGED <<disk, lastblock, wr, vers, archVars>>

\* the read of the second slot, and the choice readblock makes
ReadSecond ==
  /\ rd.pc = "one"
  /\ \E sl \in Seen(2) :
       rd' = [rd EXCEPT !.pc = "done", !.b2 = sl, !.res = ReadChoice(BothInfo(rd.b1, sl, 1))]
  /\ UNCHANGED <<disk, lastblock, wr, vers, archVars>>

\* readblock has returned or raised; the reader may call it again
ReadReturn ==
  /\ rd.pc = "done"
  /\ rd' = NoRead
  /\ UNCHANGED <<disk, lastblock, wr, vers, archVars>>

NextBlock ==
  \/ \E big \in BOOLEAN : WriteBlockBegin(big)
  \/ WriteBlockEnd
  \/ ReadFirst
  \/ ReadSecond
  \/ ReadReturn

\* No member is written.
InitBlock == InitIn({"gnu"})

SpecBlock == InitBlock /\ [][NextBlock]_vars

\* ------------------------------------- keys inserted a second time
\* The rows of a run of inserts with keys that come again: nine names in
\* descending order and the smallest once more, and four names with a small
\* offset and size that come again with an offset and a size of ten digits.
DupLen == 9

DupKeys == 4

DupRuns ==
  { AsSeq([i \in 1..(DupLen + 1) |->
             [name |-> RunName(IF i <= DupLen THEN DupLen + 1 - i ELSE 1),
              offset |-> i * tarblock, size |-> SmallData]]),
    AsSeq([i \in 1..(2 * DupKeys) |->
             IF i <= DupKeys THEN [name |-> RunName(i), offset |-> tarblock, size |-> SmallData]
             ELSE [name |-> RunName(i - DupKeys), offset |-> LargeOffset, size |-> LargeOffset]]) }

\* self.backing.overwriteflag of the handle
overwriteflag == call.args[1]

\* tree.insert up to its first block write, on a tree made with allowoverwrite
TreeStartFlag ==
  /\ isopen /\ pc = "log"
  /\ AfterTree(InsertStart(Handle, Cur.name, <<Cur.offset, Cur.size>>, overwriteflag))

\* The handle is dropped between two inserts and BlockTree(filename, "r+",
\* allowoverwrite) is made again on the file.
TreeReopen ==
  /\ isopen /\ pc = "idle" /\ hist # <<>>
  /\ \E o \in {OpenTree(disk)} : ~o.err /\ SetHandle(o.th)
  /\ fresh' = FALSE
  /\ UNCHANGED <<tar, lst, isopen, pc, hist, rebuilt, restVars, openVars>>

NextDup ==
  \/ \E rows \in DupRuns : IndexInsert(rows)
  \/ TreeStartFlag
  \/ WriteBlock
  \/ TreeReopen

InitDup == InitWith({"gnu"}, {Args("tree", <<f>>) : f \in BOOLEAN})

SpecDup == InitDup /\ [][NextDup]_vars

\* ------------------------------------------- a handle with cacheflag
\* BlockFile.setdirty with cacheflag: the node becomes a key of dirtymap; a
\* node that is a key already keeps its place.
setdirty(dm, id) == IF \E i \in 1..Len(dm) : dm[i] = id THEN dm ELSE Append(dm, id)

RECURSIVE RunCached(_, _)
\* BlockTree.insert from its first setdirty call on, with cacheflag: the
\* nodes of wq go to dirtymap and the adjust calls go on: [th, dm]
RunCached(th, dm) ==
  IF th.st # "run" THEN [th |-> th, dm |-> dm]
  ELSE With([th EXCEPT !.wq = Tail(th.wq)], LAMBDA t2 :
         RunCached(IF t2.wq = <<>> THEN Settle(t2) ELSE t2, setdirty(dm, Head(th.wq))))

RECURSIVE FlushFrom(_, _, _, _)
\* The loop of BlockFile.flushcache over the keys dm of dirtymap:
\* [err, disk, lastblock]; err is the exception of a writeblock call.
FlushFrom(nds, dsk, lb, dm) ==
  IF dm = <<>> THEN [err |-> FALSE, disk |-> dsk, lastblock |-> lb]
  ELSE With(writeblock(dsk, lb, nds[Head(dm)].blockno, BlockItems(nds[Head(dm)])), LAMBDA w :
         IF w.err THEN w ELSE FlushFrom(nds, w.disk, w.lastblock, Tail(dm)))

\* BlockFile.flushcache
flushcache(th, dm) == FlushFrom(th.nodes, th.disk, th.lastblock, dm)

\* the number of flushcache calls of a run
MaxFlushes == 2

\* the flushcache calls made
Flushes == IF call.op = "flushcache" THEN call.args[1] ELSE 0

\* tree.insert on a handle with cacheflag
CacheInsert ==
  /\ isopen /\ pc = "log"
  /\ \E r \in {RunCached(InsertStart(Handle, Cur.name, <<Cur.offset, Cur.size>>, TRUE), dirtymap)} :
       /\ SetHandle(r.th)
       /\ dirtymap' = r.dm
       /\ SetStage(IF r.th.st = "done" THEN "done" ELSE "raised")
  /\ pc' = "idle"
  /\ UNCHANGED <<tar, lst, isopen, rebuilt, fresh, wr, rd, vers, format, reader, call, driver,
                 openVars>>

\* backing.flushcache() between two inserts; when a writeblock call raises,
\* the blocks written before it are in the file and dirtymap is as it was.
FlushCache ==
  /\ isopen /\ pc = "idle" /\ dirtymap # <<>> /\ Flushes < MaxFlushes
  /\ \E w \in {flushcache(Handle, dirtymap)} :
       /\ disk' = w.disk
       /\ lastblock' = w.lastblock
       /\ dirtymap' = IF w.err THEN dirtymap ELSE <<>>
       /\ call' = [op |-> "flushcache", args |-> <<Flushes + 1>>, out |-> <<>>, ret |-> ~w.err]
  /\ UNCHANGED <<tar, lst, isopen, nodes, root, freeblock, wq, todo, st, pc, histVars, wr, rd,
                 vers, format, reader, driver, openVars>>

NextCache ==
  \/ \E rows \in InsertRuns : IndexInsert(rows)
  \/ CacheInsert
  \/ FlushCache

InitCache == InitIn({"gnu"})

SpecCache == InitCache /\ [][NextCache]_vars

\* ---------------------------- a crash between two block writes of an insert
RECURSIVE LoadAll(_, _, _, _)
\* The loop of treecheck with loadfromdisk over the children of node id from
\* Python index i on: each child that is not linked is read from the file and
\* linked: [err, nodes]
LoadAll(nds, dsk, id, i) ==
  IF i >= Len(nds[id].items) THEN [err |-> FALSE, nodes |-> nds]
  ELSE With(LoadChild(nds, dsk, id, i), LAMBDA c :
         IF c.err THEN [err |-> TRUE, nodes |-> nds]
         ELSE LoadAll(c.nodes, dsk, id, i + 1))

RECURSIVE checkfrom(_, _, _, _)
\* Node.treecheck(level, loadfromdisk) on node id and the nodes under it:
\* TRUE when it raises nothing
checkfrom(nds, dsk, id, loadfromdisk) ==
  /\ treecheck(nds, id)
  /\ ~nds[id].leaf =>
       With(IF loadfromdisk THEN LoadAll(nds, dsk, id, 0) ELSE [err |-> FALSE, nodes |-> nds],
            LAMBDA l :
         /\ ~l.err
         /\ \A j \in 1..Len(l.nodes[id].nodeptrs) :
              l.nodes[id].nodeptrs[j] # 0
              => checkfrom(l.nodes, dsk, l.nodes[id].nodeptrs[j], loadfromdisk))

\* BlockTree(filename, "r").check(loadfromdisk=True) on the file dsk
checkdisk(dsk) ==
  With(OpenTree(dsk), LAMBDA o : ~o.err /\ checkfrom(o.th.nodes, dsk, o.th.root, TRUE))

\* The process ends between two block writes of one insert: the leaf is
\* written and the block at the head of wq is not.
CrashBetweenWrites ==
  /\ pc = "tree" /\ wq # <<>> /\ todo # <<>> /\ wq[1] # todo[1]
  /\ Crash

NextCrash ==
  \/ \E rows \in InsertRuns : IndexInsert(rows)
  \/ TreeStart
  \/ WriteBlock
  \/ CrashBetweenWrites
  \/ Open

InitCrash == InitIn({"gnu"})

SpecCrash == InitCrash /\ [][NextCrash]_vars

\* ------------------------------------ a reindex that ends between its renames
\* reindex run on the closed archive, and the process ends after the rename
\* of .pylst_ and before the rename of .pytree_: the new list file is live,
\* the new tree file is left in .pytree_.
RebuildCrashRename ==
  /\ ~isopen
  /\ \E r \in {reindex(tar, tmp)} :
       /\ ~r.err
       /\ lst' = r.lst
       /\ tmp' = [disk |-> r.disk, lst |-> <<>>]
  /\ files' = files \cup {"pylst"}
  /\ UNCHANGED <<tar, disk, isopen, treeVars, pc, hist, rebuilt, fresh, restVars, mode, raised>>

NextRename ==
  \/ NextFiles
  \/ RebuildCrashRename

InitRename == InitIn({"gnu"})

SpecRename == InitRename /\ [][NextRename]_vars

\* ------------------------------------------- a handle opened in mode r
\* A guard that is wrong: no handle is read-only.
readonlyNever(m) == FALSE

\* _IndexManager.__init__: self.readonly
readonly(m) == m = "r"

\* _IndexManager.insert(name, offset, size) as a whole on the list file l and
\* the tree handle th of an index opened in mode m: [err, lst, th]
indexinsert(m, l, th, name, offset, size) ==
  IF readonly(m) THEN [err |-> TRUE, lst |-> l, th |-> th]
  ELSE With(TreeInsert(th, name, <<offset, size>>, TRUE), LAMBDA t :
         [err |-> t.st = "err",
          lst |-> Append(l, [name |-> name, offset |-> offset, size |-> size]),
          th  |-> t])

RECURSIVE LookupLoad(_, _, _, _)
\* Node.lookup from node id with the children it reads from the file linked
\* into the tree in memory: [found, err, val, nodes]
LookupLoad(nds, dsk, id, key) ==
  With(find(nds[id].items, key), LAMBDA idx :
    IF idx <= 0 THEN [found |-> FALSE, err |-> FALSE, val |-> <<>>, nodes |-> nds]
    ELSE IF nds[id].leaf
    THEN IF nds[id].items[idx][1] = key
         THEN [found |-> TRUE, err |-> FALSE, val |-> Tail(nds[id].items[idx]), nodes |-> nds]
         ELSE [found |-> FALSE, err |-> FALSE, val |-> <<>>, nodes |-> nds]
    ELSE With(LoadChild(nds, dsk, id, idx - 1), LAMBDA c :
           IF c.err THEN [found |-> FALSE, err |-> TRUE, val |-> <<>>, nodes |-> nds]
           ELSE LookupLoad(c.nodes, dsk, c.child, key)))

\* the operations of a handle that consult the index
ReadOps == {"lookup", "exist", "read", "last"}

\* lookup, exist, read or last on the handle opened in mode r
Consult(op, name) ==
  /\ isopen /\ pc = "idle" /\ mode = "r"
  /\ \E r \in {LookupLoad(nodes, disk, root, name)} :
       /\ nodes' = IF op = "last" THEN nodes ELSE r.nodes
       /\ call' = [op |-> op, args |-> <<name>>,
                   out |-> CASE op = "lookup" -> r.val
                             [] op = "exist" -> <<r.found>>
                             [] op = "read" -> IF r.found
                                               THEN <<ReadBytes(tar, r.val[1], r.val[2])>>
                                               ELSE <<>>
                             [] OTHER -> <<last(lst)>>,
                   ret |-> op \in {"exist", "last"} \/ r.found]
  /\ UNCHANGED <<fileVars, isopen, root, lastblock, freeblock, wq, todo, st, pc, histVars, wr,
                 rd, vers, format, reader, dirtymap, driver, openVars>>

\* index.insert(name, tarblock, SmallData) on the handle opened in mode r
InsertReadOnly(name) ==
  /\ isopen /\ pc = "idle" /\ mode = "r"
  /\ \E r \in {indexinsert(mode, lst, Handle, name, tarblock, SmallData)} :
       /\ lst' = r.lst
       /\ SetHandle(r.th)
       /\ call' = [op |-> "insert", args |-> <<name>>, out |-> <<>>, ret |-> ~r.err]
  /\ UNCHANGED <<tar, isopen, pc, histVars, wr, rd, vers, format, reader, dirtymap, driver,
                 openVars>>

\* the names looked up and inserted on the handle opened in mode r: two names
\* of the run and a name that is not written
ConsultNames == {RunName(1), RunName(TreeLen \div 2), ShortName}

NextReadOnly ==
  \/ \E o \in Orders : WriteCallOrder(o)
  \/ WriteTar
  \/ WriteLog
  \/ TreeStart
  \/ WriteBlock
  \/ Close
  \/ OpenRead
  \/ \E op \in ReadOps, name \in ConsultNames : Consult(op, name)
  \/ \E name \in ConsultNames : InsertReadOnly(name)

InitReadOnly == InitIn({"gnu"})

SpecReadOnly == InitReadOnly /\ [][NextReadOnly]_vars

\* ------------------------------------------- the reindex driver (main.py)
\* The tar files of a command line are [n, ok]: the position in the list and
\* whether IndexedTarFile.reindex returns for the file (it raises, for one,
\* when the tar file has a member whose name is longer than maxnamelen).
MaxTars == 3

\* the largest number of worker processes, args.nprocesses
MaxProcs == 3

TarLists ==
  UNION {{AsSeq([i \in 1..n |-> [n |-> i, ok |-> i \notin bad]]) : bad \in SUBSET (1..n)} :
           n \in 0..MaxTars}

\* what the archive model leaves alone in the driver
driverRest ==
  <<tar, lst, disk, isopen, nodes, root, lastblock, freeblock, wq, todo, st, pc,
    hist, rebuilt, fresh, wr, rd, vers, format, files, mode, raised, tmp, reader,
    call, dirtymap>>

\* reindex_tarfiles(args) up to the call of pool.map: the files are queued and
\* one process_reindex task is made for each of the args.nprocesses workers
DriverStart ==
  /\ call.op = "reindex_tarfiles" /\ driver.pc = "init"
  /\ driver' = [pc |-> "map", queue |-> call.args[1],
                workers |-> AsSeq([w \in 1..call.args[2] |-> [pc |-> "test", item |-> 0]]),
                made |-> <<>>]
  /\ UNCHANGED driverRest

\* process_reindex of worker w: the test of the loop, not queue.empty()
WorkerTest(w) ==
  /\ driver.pc = "map" /\ w \in 1..Len(driver.workers)
  /\ driver.workers[w].pc = "test"
  /\ driver' = [driver EXCEPT !.workers[w].pc = IF driver.queue = <<>> THEN "done" ELSE "get"]
  /\ UNCHANGED driverRest

\* queue.get() of worker w returns: it blocks while the queue is empty
WorkerGet(w) ==
  /\ driver.pc = "map" /\ w \in 1..Len(driver.workers)
  /\ driver.workers[w].pc = "get"
  /\ driver.queue # <<>>
  /\ driver' = [driver EXCEPT !.queue = Tail(@),
                              !.workers[w] = [pc |-> "reindex", item |-> Head(driver.queue).n]]
  /\ UNCHANGED driverRest

\* The body of the loop of worker w: reindex of the file taken.  When reindex
\* raises, the handler raises AttributeError (an Exception has no msg) and
\* the task ends.
WorkerReindex(w) ==
  /\ driver.pc = "map" /\ w \in 1..Len(driver.workers)
  /\ driver.workers[w].pc = "reindex"
  /\ driver' = [driver EXCEPT
                  !.made = Append(@, driver.workers[w].item),
                  !.workers[w].pc = IF call.args[1][driver.workers[w].item].ok
                                    THEN "test" ELSE "raised"]
  /\ UNCHANGED driverRest

\* pool.map returns or raises when every task has ended
MapReturns ==
  /\ driver.pc = "map"
  /\ \A w \in 1..Len(driver.workers) : driver.workers[w].pc \in {"done", "raised"}
  /\ driver' = [driver EXCEPT !.pc =
                  IF \E w \in 1..Len(driver.workers) : driver.workers[w].pc = "raised"
                  THEN "raised" ELSE "finished"]
  /\ UNCHANGED driverRest

NextDriver ==
  \/ DriverStart
  \/ \E w \in 1..MaxProcs : WorkerTest(w)
  \/ \E w \in 1..MaxProcs : WorkerGet(w)
  \/ \E w \in 1..MaxProcs : WorkerReindex(w)
  \/ MapReturns

InitDriver ==
  InitWith({"gnu"}, {Args("reindex_tarfiles", <<l, n>>) : l \in TarLists, n \in 1..MaxProcs})

SpecDriver == InitDriver /\ [][NextDriver]_vars

\* Every process that can take a step takes one in the end: the driver and
\* the workers are processes of the operating system.
SpecDriverFair ==
  /\ SpecDriver
  /\ WF_vars(DriverStart) /\ WF_vars(MapReturns)
  /\ \A w \in 1..MaxProcs :
       WF_vars(WorkerTest(w)) /\ WF_vars(WorkerGet(w)) /\ WF_vars(WorkerReindex(w))

\* ------------------------------------------------------- properties
\* every write call made has returned
AllDone == \A i \in 1..Len(hist) : hist[i].stage = "done"

\* no run of the process ended inside a write call
NoCrash == \A i \in 1..Len(hist) : ~hist[i].cr

DistinctNames == \A i, j \in 1..Len(hist) : i # j => hist[i].name # hist[j].name

\* the names whose write call returned
DoneNames == {hist[i].name : i \in {j \in 1..Len(hist) : hist[j].stage = "done"}}

\* the data, the index value and the row of write call i
DataOf(i) == [did |-> hist[i].did, size |-> hist[i].size]
ValueOf(i) == <<hist[i].offset, hist[i].size>>
RowOf(i) == <<hist[i].name, hist[i].offset, hist[i].size>>

\* the last write call of name n among those that satisfy Ok
LastCall(n, Ok(_)) == SetMax({i \in 1..Len(hist) : hist[i].name = n /\ Ok(i)})

\* the answer of lookup for a key that is found with value v
Found(v) == [found |-> TRUE, err |-> FALSE, val |-> v]

\* C1: on the handle that made them, after write calls with pairwise distinct
\* names of at most maxnamelen characters, read of every name written returns
\* the bytes written for it.
C1_ReadAfterWrite ==
  (/\ isopen /\ pc = "idle" /\ fresh /\ AllDone /\ DistinctNames
   /\ \A i \in 1..Len(hist) : NameLen(hist[i].name) <= maxnamelen)
  => \A i \in 1..Len(hist) :
       read(Handle, tar, hist[i].name) = [ok |-> TRUE, bytes |-> DataBytes(DataOf(i))]

\* C2: after write calls with distinct names, close and a new open, with the
\* tree in memory as it is read from the blocks of the file, lookup of every
\* name written is found with the offset and size it was inserted with.
C2_LookupAfterReopen ==
  (/\ isopen /\ pc = "idle" /\ ~fresh /\ AllDone /\ DistinctNames
   /\ nodes = OpenTree(disk).th.nodes)
  => \A i \in 1..Len(hist) : lookup(Handle, hist[i].name) = Found(ValueOf(i))

RECURSIVE TreeItems(_, _, _)
\* the rows of the leaves under node n, each node reached as lookup reaches it
TreeItems(nds, dsk, n) ==
  IF n.leaf THEN n.items
  ELSE Flatten(AsSeq([i \in 1..Len(n.items) |->
         With(ChildNode(nds, dsk, n, i - 1), LAMBDA c :
           IF c.err THEN <<>> ELSE TreeItems(nds, dsk, c.n))]))

\* the names written more than once
Repeated ==
  {n \in {hist[i].name : i \in 1..Len(hist)} :
     Cardinality({i \in 1..Len(hist) : hist[i].name = n}) > 1}

\* the offset in the tar file of the first byte of the data of write call i
DataOffset(i) ==
  ((CHOOSE p \in 1..Len(tar) : tar[p].t = "data" /\ tar[p].n = hist[i].did /\ tar[p].k = 1) - 1)
  * tarblock

\* C3: when a name was written several times, read returns the data of the
\* last write, lookup the offset and size of the last copy in the tar file,
\* and the index holds one entry for the name.
C3_LastWriteWins ==
  (isopen /\ pc = "idle" /\ fresh /\ AllDone)
  => \A n \in Repeated :
       With(LastCall(n, LAMBDA i : TRUE), LAMBDA i :
         /\ read(Handle, tar, n) = [ok |-> TRUE, bytes |-> DataBytes(DataOf(i))]
         /\ lookup(Handle, n) = Found(<<DataOffset(i), hist[i].size>>)
         /\ With(TreeItems(nodes, disk, nodes[root]), LAMBDA rows :
              Cardinality({j \in 1..Len(rows) : rows[j][1] = n}) = 1))

\* the names exist is asked for
Probes == Names \cup {RunName(i) : i \in 1..RunLen}

\* C4: on the handle that made the writes, exist(name) is true for the names
\* written and false for every other name, also on the empty archive.
C4_ExistExact ==
  (isopen /\ pc = "idle" /\ fresh)
  => \A n \in Probes : exist(Handle, n) <=> n \in DoneNames

\* a state of C4: the tree has split, a name is found and another is not
C4_Witness ==
  /\ isopen /\ pc = "idle" /\ fresh
  /\ ~nodes[root].leaf
  /\ \E n \in Probes : n \in DoneNames /\ exist(Handle, n)
  /\ \E n \in Probes : n \notin DoneNames /\ ~exist(Handle, n)

\* C5: last() returns None when the list file is empty, and otherwise the
\* name, offset and size of the last insert made.
C5_LastIsLatest ==
  (isopen /\ pc = "idle" /\ fresh /\ AllDone)
  => IF hist = <<>> THEN last(lst).kind = "none"
     ELSE last(lst) = [kind |-> "ok", val |-> RowOf(Len(hist))]

\* the rows of the leaves in the tree file, in both copies of every block
DiskRows ==
  UNION {{disk[p].items[j] : j \in 1..Len(disk[p].items)} :
           p \in {q \in 1..Len(disk) : disk[q].ok /\ disk[q].leaf = 1}}

\* the list file has the line of row r
HasLine(r) == \E i \in 1..Len(lst) : <<lst[i].name, lst[i].offset, lst[i].size>> = r

\* the tar file has a member of this name and size, with all its data
HasMember(name, size) ==
  With(TarMembers(tar), LAMBDA ms :
    \E m \in 1..Len(ms) :
      /\ ms[m].name = name /\ ms[m].size = size
      /\ ms[m].offset + size <= Len(tar) * tarblock)

\* C6: in every state the rows of the tree file have their lines in the list
\* file and the lines of the list file their members in the tar file; a write
\* call has its member in the tar file before its line is in the list file,
\* and its line in the list file before its row is in the tree file.
C6_TarLogTree ==
  /\ \A r \in DiskRows : HasLine(r)
  /\ \A i \in 1..Len(lst) : HasMember(lst[i].name, lst[i].size)
  /\ pc = "call" => ~HasLine(RowOf(Len(hist))) /\ RowOf(Len(hist)) \notin DiskRows
  /\ pc = "tar" => /\ HasMember(Cur.name, Cur.size)
                   /\ ~HasLine(RowOf(Len(hist))) /\ RowOf(Len(hist)) \notin DiskRows
  /\ pc = "log" => /\ HasMember(Cur.name, Cur.size)
                   /\ HasLine(RowOf(Len(hist))) /\ RowOf(Len(hist)) \notin DiskRows
  /\ pc = "tree" => HasMember(Cur.name, Cur.size) /\ HasLine(RowOf(Len(hist)))

\* the payload of write call i reached the tar file
Reached(i) == hist[i].stage # "call"

\* C7: after a write call that a crash ended, at any step, and the rebuild of
\* the index from the tar file, lookup of its name returns its offset and size
\* if and only if its payload had reached the tar file; the names written
\* before are found with their values.
C7_RebuildAfterCrash ==
  (isopen /\ pc = "idle" /\ rebuilt /\ hist # <<>> /\ Cur.cr)
  => \A n \in {hist[i].name : i \in 1..Len(hist)} :
       IF \E i \in 1..Len(hist) : hist[i].name = n /\ Reached(i)
       THEN lookup(Handle, n) = Found(ValueOf(LastCall(n, Reached)))
       ELSE ~lookup(Handle, n).found

\* C8: after a crash that came when the line of an insert was in the list
\* file and no block of the insert was written, last() on the archive opened
\* again, without a rebuild, returns the name, offset and size of that insert.
C8_LastAfterCrash ==
  (isopen /\ pc = "idle" /\ ~rebuilt /\ hist # <<>> /\ Cur.cr /\ Cur.stage = "log")
  => last(lst) = [kind |-> "ok", val |-> RowOf(Len(hist))]

\* C9: a writeblock call for block 1, which is in the file, leaves the slot
\* that readblock takes as current as it is and writes the other one; the
\* block it writes there, when the payload fits a block, carries the seqno of
\* the current slot plus one and is what readblock returns next.  (A payload
\* that does not fit is written as a block without a hash.)
C9_WinnerKept ==
  [][disk' # disk =>
       With(getbothblocks_(disk, 1), LAMBDA b :
         With(Winner(b.s1, b.s2), LAMBDA w :
           /\ ~b.err /\ w # 0
           /\ readblock(disk, 1).d = (IF w = 1 THEN b.i1 ELSE b.i2)
           /\ SlotAt(disk', w) = SlotAt(disk, w)
           /\ SlotAt(disk', 3 - w) = wr.sl
           /\ wr.fits => /\ wr.sl.ok
                         /\ wr.sl.seqno = (IF w = 1 THEN b.s1 ELSE b.s2) + 1
                         /\ readblock(disk', 1).d = SlotDict(wr.sl)
           /\ ~wr.fits => readblock(disk', 1) = readblock(disk, 1)))]_vars

\* a state of C9: a write was made when slot 1 was not valid, after one made
\* when the two slots had the same seqno
C9_Witness ==
  /\ ~wr.busy /\ Len(vers) >= 2
  /\ wr.s1 = -1 /\ wr.s2 > 0
  /\ wr.fits /\ SlotAt(disk, wr.slot) = wr.sl

\* the payload of the block created with the tree file
FirstPayload == BlockItems([NewNode EXCEPT !.blockno = 1])

\* C10: a readblock call that runs while writeblock calls are made never
\* raises, and returns the payload of a version written to the block.
C10_ReaderGetsVersion ==
  rd.pc = "done"
  => /\ ~rd.res.err
     /\ \E d \in {FirstPayload} \cup {vers[v] : v \in 1..Len(vers)} :
          \A i \in 1..Len(d) : HasKey(rd.res.d, d[i].key) /\ Get(rd.res.d, d[i].key) = d[i].val

\* the insert of the write call under way ends in this step
InsertEnds == isopen /\ pc \in {"log", "tree"} /\ isopen' /\ pc' = "idle"

\* C12: an insert of a name of maxnamelen characters returns, and lookup then
\* finds the name with its value; an insert of a name of maxnamelen + 1
\* characters raises, and the tree is as it was.
C12_NameLengthLimit ==
  [][InsertEnds =>
       /\ NameLen(Cur.name) = maxnamelen
            => /\ Cur'.stage = "done"
               /\ lookup(Handle', Cur.name) = Found(<<Cur.offset, Cur.size>>)
       /\ NameLen(Cur.name) = maxnamelen + 1
            => /\ Cur'.stage = "raised"
               /\ UNCHANGED <<disk, nodes, root>>
               /\ ~lookup(Handle', Cur.name).found]_vars

\* a state of C12: an insert of a name of maxnamelen + 1 characters has
\* raised, then one of a name of maxnamelen characters has returned
C12_Witness ==
  /\ isopen /\ pc = "idle" /\ Len(hist) = 2
  /\ NameLen(hist[1].name) = maxnamelen + 1 /\ hist[1].stage = "raised"
  /\ NameLen(hist[2].name) = maxnamelen /\ hist[2].stage = "done"
  /\ exist(Handle, hist[2].name)

\* the members of the tar file as reindex reads them
Members == TarMembers(tar)

\* C13: an open call in mode "r+" that finds .pytree or .pylst missing makes
\* both files again from the tar file: when it has returned both are there,
\* lookup finds every member of the tar file and last() returns its last
\* member (None when it has no member).
C13_OpenRebuilds ==
  [][(~isopen /\ files # AllFiles /\ isopen' /\ mode' = "r+") =>
       /\ files' = AllFiles
       /\ \A i \in 1..Len(Members) : lookup(Handle', Members[i].name).found
       /\ last(lst') =
            IF Members = <<>> THEN [kind |-> "none", val |-> <<>>]
            ELSE With(Members[Len(Members)], LAMBDA m :
                   [kind |-> "ok", val |-> <<m.name, m.offset, m.size>>])]_vars

\* C14: an open call in mode "r" that finds .pytree or .pylst missing raises
\* IndexNotFoundError, the archive is not open, and no file is made or changed.
C14_ReadOpenFails ==
  [][(/\ ~isopen /\ files # AllFiles /\ mode' = "r"
      /\ <<isopen, mode, raised>>' # <<isopen, mode, raised>>) =>
       /\ raised' = "IndexNotFoundError"
       /\ ~isopen'
       /\ UNCHANGED <<tar, lst, disk, files, tmp>>]_vars

\* a state of C14: an open call in mode "r" on an archive with members,
\* whose .pylst was missing, has raised
C14_Witness ==
  /\ ~isopen /\ mode = "r" /\ raised = "IndexNotFoundError"
  /\ files = {"pytree"} /\ Len(Members) = MaxWrites

C15_EscapeRoundTrip ==
  /\ \A p \in 1..Len(disk) :
       disk[p].ok =>
         With(SlotParse(disk[p]), LAMBDA r :
           r.ok /\ HasKey(r.d, K_items) /\ Get(r.d, K_items) = disk[p].items)
  /\ lst # <<>> =>
       With(lst[Len(lst)], LAMBDA l :
         last(lst) = [kind |-> "ok", val |-> <<l.name, l.offset, l.size>>])

\* the names of the write calls made
WrittenNames == {hist[i].name : i \in 1..Len(hist)}

\* C19: for an archive made by write calls, reindex gives the list file the
\* write calls made, and a tree in which lookup, after it was opened, finds
\* every name with the offset and size of its last insert.
C19_RebuildSameIndex ==
  (~isopen /\ ~rebuilt /\ AllDone /\ NoCrash /\ files = AllFiles)
  => With(reindex(tar, tmp), LAMBDA r :
       /\ ~r.err
       /\ r.lst = lst
       /\ With(OpenTree(r.disk), LAMBDA o :
            /\ ~o.err
            /\ \A n \in WrittenNames :
                 lookup(o.th, n) = Found(ValueOf(LastCall(n, LAMBDA i : TRUE)))))

\* the names written by the write calls that returned, in ascending order
SortedKeys ==
  With(DoneNames, LAMBDA S :
    AsSeq([k \in 1..Cardinality(S) |->
             CHOOSE x \in S : Cardinality({y \in S : KeyLess(y, x)}) = k - 1]))

\* the keys of a list of items
Keys(items) == AsSeq([i \in 1..Len(items) |-> items[i][1]])

Ascending(keys) == \A i \in 1..(Len(keys) - 1) : KeyLess(keys[i], keys[i + 1])

RECURSIVE MemKeys(_, _)
\* the keys of the leaves in memory under node id, from left to right
MemKeys(nds, id) ==
  IF nds[id].leaf THEN Keys(nds[id].items)
  ELSE Flatten(AsSeq([i \in 1..Len(nds[id].nodeptrs) |->
         IF nds[id].nodeptrs[i] = 0 THEN <<>> ELSE MemKeys(nds, nds[id].nodeptrs[i])]))

\* keys ks lie under entry i of the items of an internal node: none below
\* its separator, all below the next one
Under(items, i, ks) ==
  \A j \in 1..Len(ks) :
    /\ ~KeyLess(ks[j], items[i][1])
    /\ i < Len(items) => KeyLess(ks[j], items[i + 1][1])

\* the separators of internal node id are right for the subtrees in memory
SeparatorsRight(nds, id) ==
  \A i \in 1..Len(nds[id].items) :
    /\ nds[id].nodeptrs[i] # 0
    /\ With(MemKeys(nds, nds[id].nodeptrs[i]), LAMBDA ks :
         /\ ks # <<>>
         /\ ks[1] = nds[id].items[i][1]
         /\ Under(nds[id].items, i, ks))

\* C16: after the inserts made on one handle, from the empty tree on, the
\* keys of every node in memory are strictly ascending, every separator of an
\* internal node is the smallest key under its child and every key under the
\* child is smaller than the next separator, and check() raises nothing.
C16_TreeInMemory ==
  (isopen /\ pc = "idle" /\ fresh /\ AllDone)
  => /\ \A id \in MemNodes(nodes, root) :
          /\ Ascending(Keys(nodes[id].items))
          /\ ~nodes[id].leaf => SeparatorsRight(nodes, id)
     /\ check(Handle)
     /\ MemKeys(nodes, root) = SortedKeys

\* a state of C16: the tree in memory has three levels and holds TreeLen keys
C16_Witness ==
  /\ isopen /\ pc = "idle" /\ fresh /\ AllDone /\ Len(hist) = TreeLen
  /\ ~nodes[root].leaf
  /\ \E i \in 1..Len(nodes[root].nodeptrs) :
       nodes[root].nodeptrs[i] # 0 /\ ~nodes[nodes[root].nodeptrs[i]].leaf
  /\ check(Handle)

RECURSIVE DiskKeys(_, _)
\* the keys of the leaves under block b of the tree file, each block read
\* with readblock, from left to right
DiskKeys(dsk, b) ==
  With(ReadNode(dsk, b), LAMBDA r :
    IF r.err THEN <<>>
    ELSE IF r.n.leaf THEN Keys(r.n.items)
    ELSE Flatten(AsSeq([i \in 1..Len(r.n.items) |-> DiskKeys(dsk, r.n.items[i][2])])))

RECURSIVE DiskTreeRight(_, _, _, _)
\* Block b of the file is right as the block of node id: it has the keys of
\* the node, under every entry of an internal block are the keys of that
\* subtree and no other, within the separators, and the child blocks are right.
DiskTreeRight(dsk, b, nds, id) ==
  With(ReadNode(dsk, b), LAMBDA r :
    /\ ~r.err
    /\ r.n.leaf = nds[id].leaf
    /\ Keys(r.n.items) = Keys(nds[id].items)
    /\ Ascending(Keys(r.n.items))
    /\ ~r.n.leaf =>
         \A i \in 1..Len(r.n.items) :
           /\ With(DiskKeys(dsk, r.n.items[i][2]), LAMBDA ks :
                /\ ks = MemKeys(nds, nds[id].nodeptrs[i])
                /\ Under(r.n.items, i, ks))
           /\ DiskTreeRight(dsk, r.n.items[i][2], nds, nds[id].nodeptrs[i]))

\* C17: after every insert that has returned, the tree in the file, read
\* from block 1 on along the block numbers of the entries, has under every
\* entry of an internal block the keys of that subtree and no other, all of
\* them between the separator of the entry and the next one; no key is
\* under two entries.
C17_TreeOnDisk ==
  (isopen /\ pc = "idle" /\ fresh /\ AllDone)
  => /\ DiskTreeRight(disk, 1, nodes, root)
     /\ DiskKeys(disk, 1) = SortedKeys

\* in this step a node without a parent is split: a new root is made
RootSplits ==
  /\ isopen /\ isopen' /\ freeblock' # freeblock
  /\ Len(nodes') = Len(nodes) + 2

\* the root in memory is block 1, and block 1 of the file holds its items
RootIsBlockOne ==
  (isopen /\ pc = "idle" /\ fresh /\ AllDone)
  => /\ nodes[root].blockno = 1 /\ nodes[root].parent = 0
     /\ With(ReadNode(disk, 1), LAMBDA r :
          ~r.err /\ r.n.leaf = nodes[root].leaf /\ r.n.items = nodes[root].items)

\* C18: the root is block 1 after every insert, and when the root is split
\* the new root is block 1 and its two children have the two block numbers
\* that were free, which are not 1 and are past the end of the file.
C18_RootBlockOne ==
  /\ []RootIsBlockOne
  /\ [][RootSplits =>
          With(nodes'[Len(nodes')], LAMBDA r :
            /\ r.blockno = 1 /\ r.parent = 0 /\ ~r.leaf
            /\ Len(r.items) = 2
            /\ r.items[1][2] = freeblock /\ r.items[2][2] = freeblock + 1
            /\ \A i \in 1..2 :
                 /\ r.items[i][2] # 1
                 /\ r.items[i][2] > lastblock
                 /\ 2 * r.items[i][2] > Len(disk) + 1
                 /\ nodes'[r.nodeptrs[i]].blockno = r.items[i][2]
                 /\ nodes'[r.nodeptrs[i]].parent = Len(nodes'))]_vars

\* a state of C18: the root was split twice, the tree has three levels
C18_Witness ==
  /\ isopen /\ pc = "idle" /\ fresh /\ AllDone
  /\ nodes[root].blockno = 1 /\ ~nodes[root].leaf
  /\ \E i \in 1..Len(nodes[root].nodeptrs) :
       /\ nodes[root].nodeptrs[i] # 0
       /\ ~nodes[nodes[root].nodeptrs[i]].leaf
       /\ nodes[nodes[root].nodeptrs[i]].blockno # 1

\* C11: a lookup of the reader for a name whose write call had returned when
\* the reader was opened finds the name, with the offset and size inserted,
\* whatever block writes of the writer come between its block reads.
C11_ReaderFindsKnown ==
  reader.pc \in {"found", "notfound", "err"}
  => reader.pc = "found" /\ reader.val = ValueOf(reader.key)

\* C29: on a strictly ascending list find returns the smallest index whose
\* key is greater than the key looked for, the length of the list if there is
\* none, and the linear scan and the binary search return the same index.
C29_FindFirstGreater ==
  call.op = "find" /\ call.ret =>
    LET items == call.args[1]
        key   == call.args[2]
        n     == Len(items)
        i     == call.out[1]
    IN  /\ i \in 0..n
        /\ \A j \in 1..i : ~KeyLess(key, items[j][1])
        /\ i < n => KeyLess(key, items[i + 1][1])
        /\ call.out[2] = i
        /\ call.out[3] = i

\* a list of 8 items or more is searched for a key that lies inside it
C29_Witness ==
  /\ call.op = "find" /\ call.ret
  /\ Len(call.args[1]) >= 8
  /\ call.out[1] \in 1..(Len(call.args[1]) - 1)

\* the dict d is the one the slot sl was written from
IsPayloadOf(d, sl) ==
  /\ Get(d, K_seqno) = sl.seqno
  /\ Get(d, K_blockno) = sl.blockno
  /\ Get(d, K_leaf) = sl.leaf
  /\ Get(d, K_items) = sl.items

\* C30: readblock(n) raises when a slot whose hash check passes holds another
\* block number than n or a seqno of 0 or less, and when no slot passes the
\* hash check; otherwise it returns what the valid slot of the larger seqno
\* holds, or what the only valid slot holds.
C30_ReadblockChoice ==
  call.op = "readblock" /\ call.ret =>
    LET n     == call.args[1]
        pair  == <<call.args[2], call.args[3]>>
        valid == {i \in 1..2 : pair[i].ok}
        wrong == {i \in valid : pair[i].blockno # n \/ pair[i].seqno <= 0}
        top   == {i \in valid : \A j \in valid : pair[j].seqno <= pair[i].seqno}
    IN  IF wrong # {} \/ valid = {} THEN call.out.err
        ELSE /\ ~call.out.err
             /\ \E i \in top : IsPayloadOf(call.out.d, pair[i])

\* both slots are valid and the second slot has the smaller seqno
C30_Witness ==
  /\ call.op = "readblock" /\ call.ret /\ ~call.out.err
  /\ call.args[2].ok /\ call.args[3].ok
  /\ call.args[2].seqno > call.args[3].seqno
  /\ IsPayloadOf(call.out.d, call.args[2])

\* C25: for a name that insert accepts the row of the leaf and the line of
\* .pylst, commas and backslashes escaped, are at most maxreclen bytes long.
C25_RecordFits ==
  call.op = "record" /\ call.ret /\ call.out.accepted =>
    call.out.row <= maxreclen /\ call.out.line <= maxreclen

\* the lines of the file that last was called on
FileLines == SplitLines(PiecesText(call.args[1]))

\* the last piece of the file is a torn line of at least one byte, and the
\* pieces before it are whole lines
TornAfterWhole ==
  LET ps == call.args[1]
  IN  /\ ps[Len(ps)].cut >= 1
      /\ \A i \in 1..(Len(ps) - 1) : ps[i] = Whole(ps[i].rec)

\* C21: when the last line of .pylst is a torn line and the line before it
\* is whole, last() returns the record of the line before it; when the last
\* two lines both fail to parse, last() raises.
C21_LastSkipsTornLine ==
  call.op = "last" /\ call.ret =>
    LET ps == call.args[1]
        r  == ps[Len(ps) - 1].rec
    IN  /\ TornAfterWhole =>
             call.out = [kind |-> "ok", val |-> <<r.name, r.offset, r.size>>]
        /\ (/\ Len(FileLines) >= 2
            /\ ~LastTry(FileLines[Len(FileLines)]).ok
            /\ ~LastTry(FileLines[Len(FileLines) - 1]).ok)
           => call.out.kind = "raise"

\* C22: exist(name) returns False only when the name is not in the index;
\* when its lookup reads a block with no valid slot, or a valid slot that
\* holds another block number, exist does not return False.
C22_ExistSurfacesErrors ==
  call.op = "exist" /\ call.ret /\ call.out.opened /\ ~call.out.exist =>
    call.out.lookup = "not found"

\* a writeblock call was torn and no write call was made since
JustTorn == call.op = "writeblock" /\ Len(hist) = call.args[3]

\* after the torn write the block reads as it read before the write
TornBlockReadsOld == JustTorn => readblock(disk, call.args[1]) = call.args[2]

\* every block of the file has a physical block whose hash check passes
EveryBlockHasValidSlot ==
  \A b \in 1..(Len(disk) \div 2) : SlotAt(disk, 2 * b - 1).ok \/ SlotAt(disk, 2 * b).ok

\* C23: after a crash that tears the write of writeblock to the one physical
\* block of a block in the file, readblock of the block returns what it
\* returned before the write; and after writes and such crashes every block
\* up to the last has a physical block whose hash check passes.
C23_TornWriteKeepsBlock == TornBlockReadsOld /\ EveryBlockHasValidSlot

\* C24: when insert has returned, and with it every adjust call, every node
\* in memory has fewer than maxitems items and a serialized size of at most
\* blocksize - maxreclen.
C24_RoomAfterAdjust ==
  (isopen /\ pc = "idle" /\ st = "done") =>
    \A id \in MemNodes(nodes, root) :
      /\ Len(nodes[id].items) < maxitems
      /\ storesize(nodes[id]) <= blocksize - maxreclen

\* a step in which a node is split
Splits == isopen /\ isopen' /\ freeblock' = freeblock + 2 /\ Len(wq') = 3

\* C26: in every split the two halves get the block numbers freeblock and
\* freeblock + 1, the parent has an entry for each of the two, and no entry
\* of the parent holds the block number the node had before.
C26_SplitNewBlocks ==
  [][Splits =>
       LET l    == wq'[1]
           r    == wq'[2]
           par  == nodes'[wq'[3]]
           old  == nodes[l].blockno
           refs == {par.items[i][2] : i \in 1..Len(par.items)}
       IN  /\ nodes'[l].blockno = freeblock
           /\ nodes'[r].blockno = freeblock + 1
           /\ freeblock \in refs
           /\ freeblock + 1 \in refs
           /\ old \notin refs]_vars

\* the block numbers in the items of block b of the file, an internal node
ChildBlocks(b) ==
  With(readblock(disk, b), LAMBDA r :
    IF r.err \/ Get(r.d, K_leaf) > 0 THEN {}
    ELSE {Get(r.d, K_items)[i][2] : i \in 1..Len(Get(r.d, K_items))})

\* every block number in a readable internal node of the file is that of a
\* block that readblock returns
ChildrenReadable ==
  \A b \in 1..(Len(disk) \div 2) : \A c \in ChildBlocks(b) : ~readblock(disk, c).err

\* after a split the left half, the right half and their parent are to be
\* written, in this order
SplitQueue ==
  Splits =>
    /\ nodes'[wq'[1]].blockno = freeblock /\ nodes'[wq'[1]].parent = wq'[3]
    /\ nodes'[wq'[2]].blockno = freeblock + 1 /\ nodes'[wq'[2]].parent = wq'[3]

\* a block write of insert writes the block of the first node to be written
WritesFirst ==
  (isopen /\ isopen' /\ pc = "tree" /\ wq # <<>> /\ disk' # disk) =>
    \A p \in 1..Len(disk') :
      SlotAt(disk', p) # SlotAt(disk, p)
        => p \in {2 * nodes[Head(wq)].blockno - 1, 2 * nodes[Head(wq)].blockno}

\* C27: the blocks of a split are written in the order left half, right
\* half, parent, and in every state of the file each block number in a
\* readable internal node is that of a block that was written and is valid.
C27_ChildrenBeforeParent ==
  /\ [][SplitQueue /\ WritesFirst]_vars
  /\ []ChildrenReadable

\* ------------------------------------------ separators after an insert
RECURSIVE LeftChain(_, _)
\* the nodes in memory from node id down the first child of each, to the leaf
LeftChain(nds, id) ==
  IF nds[id].leaf \/ Len(nds[id].nodeptrs) = 0 \/ nds[id].nodeptrs[1] = 0 THEN {id}
  ELSE {id} \cup LeftChain(nds, nds[id].nodeptrs[1])

\* a step that is tree.insert of Cur.name up to its first block write
InsertStep == isopen /\ pc = "log" /\ pc' = "tree"

\* key is smaller than every key of the tree in memory
SmallestInTree(key) ==
  \A id \in MemNodes(nodes, root) :
    \A i \in 1..Len(nodes[id].items) : KeyLess(key, nodes[id].items[i][1])

KeyInTree == \E i \in 1..(Len(hist) - 1) : hist[i].name = Cur.name /\ hist[i].stage = "done"

\* the numbers of items of the leaves in memory that hold key
LeafLens(nds, r, key) ==
  {Len(nds[id].items) : id \in {n \in MemNodes(nds, r) :
     nds[n].leaf /\ \E i \in 1..Len(nds[n].items) : nds[n].items[i][1] = key}}

\* with overwrite disabled the insert of a key that is in the tree raises and
\* leaves the nodes in memory and the blocks of the file as they are
DuplicateRaises ==
  (isopen /\ pc = "log" /\ ~overwriteflag /\ KeyInTree)
  => /\ st' = "err"
     /\ disk' = disk
     /\ \A id \in DOMAIN nodes :
          /\ id \in DOMAIN nodes'
          /\ nodes'[id].items = nodes[id].items
          /\ nodes'[id].blockno = nodes[id].blockno

\* with overwrite enabled the insert of a key that is in the tree ends with
\* the value in the row of the key, and no step of it changes the number of
\* items of the leaf that holds the key
ReplacesInPlace ==
  (isopen /\ pc \in {"log", "tree"} /\ overwriteflag /\ KeyInTree /\ fresh)
  => /\ LeafLens(nodes', root', Cur.name) = LeafLens(nodes, root, Cur.name)
     /\ pc' = "idle" =>
          /\ st' = "done"
          /\ With(lookup(Handle', Cur.name), LAMBDA l :
               l.found /\ l.val = <<Cur.offset, Cur.size>>)

\* C31: with overwrite disabled the insert of a key that is already in the
\* tree fails and changes no node in memory and no block of the file; with
\* overwrite enabled the row of the key is replaced in place and the number of
\* items of the leaf does not change.
C31_DuplicateOrReplace == [][DuplicateRaises /\ ReplacesInPlace]_vars

\* the first half of C31 on the handle that made the tree
C31_DuplicateOnHandle == [][fresh => DuplicateRaises]_vars

\* ------------------------------------------- the cache and the file
RECURSIVE Through(_)
\* the handle after the rows of the first n write calls were inserted, in
\* write-through mode, into a new tree
Through(n) ==
  IF n = 0 THEN OpenTree(NewTreeFile).th
  ELSE TreeInsert(Through(n - 1), hist[n].name, ValueOf(n), TRUE)

RECURSIVE DiskItems(_, _)
\* the rows of the leaves under block b of the tree file
DiskItems(dsk, b) ==
  With(ReadNode(dsk, b), LAMBDA r :
    IF r.err THEN {}
    ELSE IF r.n.leaf THEN {r.n.items[i] : i \in 1..Len(r.n.items)}
    ELSE UNION {DiskItems(dsk, r.n.items[i][2]) : i \in 1..Len(r.n.items)})

\* flushcache has returned or raised and no insert was made since it returned
Flushed == isopen /\ pc = "idle" /\ call.op = "flushcache" /\ (dirtymap = <<>> \/ ~call.ret)

\* flushcache raises nothing
FlushReturns == Flushed => call.ret

\* after a flushcache call that returned the file holds the rows of the file
\* of the write-through handle
FlushedRows ==
  (Flushed /\ call.ret) => DiskItems(disk, 1) = DiskItems(Through(Len(hist)).disk, 1)

\* C32: on a handle with cacheflag, after any inserts, flushcache writes
\* every node of dirtymap without an exception, and the file then holds the
\* keys and values of the file that the same inserts make in write-through mode.
C32_FlushAsWriteThrough == FlushReturns /\ FlushedRows

\* ------------------------------------------- the file after a crash
\* a run of the process ended inside an insert
Crashed == \E i \in 1..Len(hist) : hist[i].cr

\* C33: after a crash between two block writes of one insert and an open
\* without rebuild, check(loadfromdisk=True) on the file raises nothing, and
\* it raises nothing after every further insert on the handle opened again.
C33_DeepCheckAfterCrash ==
  (isopen /\ pc = "idle" /\ Crashed /\ ~rebuilt) => checkdisk(disk)

\* the deep check of the file after the inserts of a run without a crash
C33_DeepCheckNoCrash ==
  (isopen /\ pc = "idle" /\ ~Crashed) => checkdisk(disk)

\* ------------------------------------------- the index files in a reindex
\* a step on the closed archive that deletes no file: open or reindex, whole
\* or up to the end of the process
ReindexStep == ~isopen /\ files \subseteq files'

\* C34: whatever the step of a reindex at which the process ends, the live
\* files .pytree and .pylst are both as they were before the reindex or both
\* the files the reindex makes.
C34_ReindexBothOrNone ==
  [][ReindexStep =>
       With(reindex(tar, tmp), LAMBDA r :
         \/ disk' = disk /\ lst' = lst /\ files' \in {files, files \cup {"pylst"}}
         \/ ~r.err /\ disk' = r.disk /\ lst' = r.lst /\ files' = AllFiles)]_vars

\* the same for a reindex that ends before its first rename or returns
C34_ScanOnlySiblings ==
  [][(ReindexStep /\ ~(lst' # lst /\ tmp'.lst = <<>> /\ tmp'.disk # <<>>)) =>
       With(reindex(tar, tmp), LAMBDA r :
         \/ disk' = disk /\ lst' = lst /\ files' \in {files, files \cup {"pylst"}}
         \/ ~r.err /\ disk' = r.disk /\ lst' = r.lst /\ files' = AllFiles)]_vars

\* ------------------------------------------- a name that is too long
\* the last write call was refused by BlockTree.insert for the length of its name
Rejected ==
  /\ isopen /\ pc = "idle" /\ hist # <<>> /\ ~rebuilt
  /\ Cur.stage = "raised" /\ KeyTooLong(Cur.name)

\* the write calls whose insert returned
Accepted == {i \in 1..Len(hist) : hist[i].stage = "done"}

\* after the insert that was refused the tree does not hold the name
RejectedNotInTree == Rejected => ~lookup(Handle, Cur.name).found

\* C35: after an insert that was refused because the name is longer than
\* maxnamelen, the list file has no line of it and last() returns the record
\* of the last insert that was accepted; the tree does not hold the name.
C35_RejectedLeavesLog ==
  Rejected
  => /\ \A i \in 1..Len(lst) : lst[i].name # Cur.name
     /\ IF Accepted = {} THEN last(lst).kind = "none"
        ELSE last(lst) = [kind |-> "ok", val |-> RowOf(SetMax(Accepted))]
     /\ ~lookup(Handle, Cur.name).found

\* ------------------------------------------- nothing written in mode r
\* C36: on a handle opened in mode r no step changes the tar file, the list
\* file or the tree file, and an insert ends with an exception and leaves the
\* list file and the tree in memory as they are.
C36_ReadOnlyWritesNothing ==
  [][(isopen /\ mode = "r") =>
       /\ tar' = tar /\ lst' = lst /\ disk' = disk /\ files' = files
       /\ (call'.op = "insert" /\ call' # call) => (~call'.ret /\ nodes' = nodes)]_vars

\* a state of C36: an insert on the handle opened in mode r of an archive
\* with members has raised
C36_Witness ==
  /\ isopen /\ mode = "r" /\ call.op = "insert" /\ ~call.ret
  /\ lst # <<>> /\ tar # <<>> /\ ~nodes[root].leaf

\* ------------------------------------------- the counters of the tree file
\* after creation and after every insert that returned freeblock is
\* lastblock + 1 and the file has two slots for each block up to lastblock
CountersRight ==
  (isopen /\ pc = "idle" /\ (hist = <<>> \/ Cur.stage = "done"))
  => /\ freeblock = lastblock + 1
     /\ Len(disk) = 2 * lastblock

\* a step that is one writeblock call of an insert
BlockWrite == isopen /\ pc = "tree" /\ isopen'

\* every writeblock call of an insert is for a block up to lastblock + 1 and
\* does not raise
WritesInRange ==
  BlockWrite => /\ nodes[Head(wq)].blockno <= lastblock + 1
                /\ st' # "err"

\* a writeblock call for the block lastblock + 1 makes the two slots of the
\* block, equal and valid, with seqno 1
NewBlockTwice ==
  (BlockWrite /\ nodes[Head(wq)].blockno = lastblock + 1)
  => With(nodes[Head(wq)].blockno, LAMBDA b :
       /\ lastblock' = b
       /\ disk'[2 * b - 1] = disk'[2 * b]
       /\ disk'[2 * b].ok /\ disk'[2 * b].seqno = 1 /\ disk'[2 * b].blockno = b)

\* C37: in write-through mode, after creation and after every insert,
\* freeblock is lastblock + 1 and the file has 1 + 2 * lastblock blocks of
\* blocksize bytes; every writeblock call of an insert is for a block number
\* of at most lastblock + 1 and raises nothing; every new block is made with
\* two equal slots of seqno 1.
C37_BlockCounters == []CountersRight /\ [][WritesInRange /\ NewBlockTwice]_vars

\* ------------------------------------------- the end of the driver
\* reindex_tarfiles has returned or raised
DriverEnded == driver.pc \in {"finished", "raised"}

\* reindex was called once for every file of the command line
EachOnce ==
  /\ Len(driver.made) = Len(call.args[1])
  /\ \A i \in 1..Len(call.args[1]) : \E j \in 1..Len(driver.made) : driver.made[j] = i

\* no worker is inside queue.get() with the queue empty
NoWorkerBlocked ==
  \A w \in 1..Len(driver.workers) : ~(driver.workers[w].pc = "get" /\ driver.queue = <<>>)

\* C38: the driver with N workers ends for every list of tar files, with
\* every queued file reindexed once; no worker is left inside queue.get().
C38_DriverTerminates == <>DriverEnded /\ [](DriverEnded => EachOnce)

\* the driver ends
C38_DriverEnds == <>DriverEnded

\* the driver ends when there is one worker, whatever the files
C38_OneWorkerEnds == (call.args[2] = 1) => <>DriverEnded

\* with files whose reindex returns, the driver that ends has reindexed each once
C38_GoodFilesOnce ==
  []((DriverEnded /\ \A i \in 1..Len(call.args[1]) : call.args[1][i].ok) => EachOnce)
====
